---- MODULE Spec2Model ----
(***************************************************************************)
(* Token-aware chunking of the finlex-ingestion example, and the stages    *)
(* of its pipeline that store and embed the chunks.                        *)
(*                                                                         *)
(* The model follows src/examples/finlex-ingestion/src/chunk.py (and its   *)
(* staged copy src-multi/stage3_chunk.py): chunk_document, chunk_section,  *)
(* chunk_text, find_sentence_boundary and create_chunk_dict; then          *)
(* process_document and main of src-multi/stage3_chunk.py and              *)
(* src-multi/stage4_embed.py over the blob helpers of shared/blob_io.py,   *)
(* and generate_embeddings of src/embed.py.                                *)
(*                                                                         *)
(* Text is a sequence of one-character strings.  Python offsets are        *)
(* 0-based; TLA+ sequences are 1-based, so text[i] of the source is        *)
(* text[i+1] here.                                                         *)
(***************************************************************************)
EXTENDS Integers, Sequences, FiniteSets, TLC

\* ------------------------------------------------------------------ bounds

\* Longest document (sections list) that is chunked.
MaxSections == 2
\* Longest full_text, counted in pieces of TextPieces.
MaxPieces == 4
\* Largest value of MIN_CHUNK_SIZE, MAX_CHUNK_SIZE and OVERLAP_SIZE tried.
MaxCfg == 3
\* Most calls of chunk_document on one document.
MaxCalls == 2

\* ----------------------------------------------------------- small helpers

Min2(a, b) == IF a < b THEN a ELSE b

Max2(a, b) == IF a > b THEN a ELSE b

SetMin(S) == CHOOSE x \in S : \A y \in S : x <= y

\* Python's None, as a value that can be compared with a string.
None == << "<None>" >>

\* Python truthiness of an optional string: None and '' are falsy.
Truthy(s) == s # None /\ s # << >>

\* Python seq[lo:hi] with 0-based bounds; a negative bound counts from the end.
PySlice(s, lo, hi) ==
    LET n == Len(s)
        l == IF lo < 0 THEN Max2(n + lo, 0) ELSE Min2(lo, n)
        h == IF hi < 0 THEN Max2(n + hi, 0) ELSE Min2(hi, n)
    IN  SubSeq(s, l + 1, h)

\* Concatenation of a sequence of sequences (the inverse of splitting), by
\* halves so that long sequences stay shallow.
RECURSIVE Flatten(_)
Flatten(ss) ==
    IF ss = << >> THEN << >>
    ELSE IF Len(ss) = 1 THEN ss[1]
    ELSE LET h == Len(ss) \div 2
         IN  Flatten(SubSeq(ss, 1, h)) \o Flatten(SubSeq(ss, h + 1, Len(ss)))

\* sep.join(parts)
Join(sep, parts) ==
    IF parts = << >> THEN << >>
    ELSE Flatten([ i \in 1..(2 * Len(parts) - 1) |->
                     IF i % 2 = 1 THEN parts[(i + 1) \div 2] ELSE sep ])

\* All sequences over S of length 0..n.
RECURSIVE SeqsUpTo(_, _)
SeqsUpTo(S, n) ==
    IF n = 0 THEN { << >> }
    ELSE LET shorter == SeqsUpTo(S, n - 1)
         IN  shorter \cup { Append(s, x) : s \in { t \in shorter : Len(t) = n - 1 }, x \in S }

\* str(n) for n >= 0: the decimal digits of n.
Digit(d) == CASE d = 0 -> "0" [] d = 1 -> "1" [] d = 2 -> "2" [] d = 3 -> "3"
              [] d = 4 -> "4" [] d = 5 -> "5" [] d = 6 -> "6" [] d = 7 -> "7"
              [] d = 8 -> "8" [] d = 9 -> "9"

RECURSIVE Str(_)
Str(n) == IF n < 10 THEN << Digit(n) >> ELSE Str(n \div 10) \o << Digit(n % 10) >>

\* --------------------------------------------------------------- tokenizer

(***************************************************************************)
(* encoding = tiktoken.get_encoding("cl100k_base"): a byte-pair encoder.   *)
(* A token is a string; encode starts from single characters and applies   *)
(* the merge of lowest rank, leftmost first, until none applies; decode    *)
(* concatenates.  The merge table is a reduced one with the shapes the     *)
(* cl100k_base vocabulary has: a space joins the letter after it, letters  *)
(* join into longer runs, and sentence punctuation joins the newlines      *)
(* after it, so a character offset can fall inside a token.                *)
(***************************************************************************)
Merges == <<
    << << " " >>, << "a" >> >>,
    << << "a" >>, << "a" >> >>,
    << << "a", "a" >>, << "a", "a" >> >>,
    << << "." >>, << "\n" >> >>,
    << << "\n" >>, << "\n" >> >>,
    << << ".", "\n" >>, << "\n" >> >>,
    << << "#" >>, << "#" >> >>
>>

\* Rank of merging the adjacent tokens x, y; 0 when they do not merge.
MergeRank(x, y) ==
    LET rs == { r \in 1..Len(Merges) : Merges[r] = << x, y >> }
    IN  IF rs = {} THEN 0 ELSE SetMin(rs)

RECURSIVE BpeMerge(_)
BpeMerge(parts) ==
    LET cands == { i \in 1..(Len(parts) - 1) : MergeRank(parts[i], parts[i + 1]) > 0 }
    IN  IF cands = {} THEN parts
        ELSE LET best == CHOOSE i \in cands : \A j \in cands :
                            \/ MergeRank(parts[i], parts[i + 1]) < MergeRank(parts[j], parts[j + 1])
                            \/ /\ MergeRank(parts[i], parts[i + 1]) = MergeRank(parts[j], parts[j + 1])
                               /\ i <= j
             IN  BpeMerge(SubSeq(parts, 1, best - 1)
                          \o << parts[best] \o parts[best + 1] >>
                          \o SubSeq(parts, best + 2, Len(parts)))

\* encoding.encode(text)
Encode(text) == BpeMerge([i \in 1..Len(text) |-> << text[i] >>])

\* encoding.decode(tokens)
Decode(tokens) == Flatten(tokens)

\* ------------------------------------------------------------ boundaries

\* str.isspace() for one character.
IsSpace(c) == c \in { " ", "\n" }

\* text.find('\n\n', start): the lowest offset >= start, or -1.
FindParaBreak(text, start) ==
    LET hits == { i \in start..(Len(text) - 2) : text[i + 1] = "\n" /\ text[i + 2] = "\n" }
    IN  IF hits = {} THEN -1 ELSE SetMin(hits)

\* Mutant of find_sentence_boundary: whichever of the two comes first.
find_sentence_boundary_nearest(text, start_pos) ==
    LET n == Len(text)
        hits == { i \in start_pos..(n - 1) :
                    /\ text[i + 1] \in { ".", "!", "?" }
                    /\ (i + 1 >= n \/ IsSpace(text[i + 2])) }
        para_pos == FindParaBreak(text, start_pos)
    IN  IF hits # {} /\ (para_pos <= 0 \/ SetMin(hits) + 1 <= para_pos) THEN SetMin(hits) + 1
        ELSE IF para_pos > 0 THEN para_pos
        ELSE -1

\* find_sentence_boundary(text, start_pos)
find_sentence_boundary(text, start_pos) ==
    LET n == Len(text)
        hits == { i \in start_pos..(n - 1) :
                    /\ text[i + 1] \in { ".", "!", "?" }
                    /\ (i + 1 >= n \/ IsSpace(text[i + 2])) }
        para_pos == FindParaBreak(text, start_pos)
    IN  IF hits # {} THEN SetMin(hits) + 1
        ELSE IF para_pos > 0 THEN para_pos
        ELSE -1

\* ---------------------------------------------------------------- records

\* f"{doc['document_id']}_chunk_{chunk_index}"
ChunkId(document_id, chunk_index) ==
    document_id \o << "_", "c", "h", "u", "n", "k", "_" >> \o Str(chunk_index)

create_chunk_dict(d, content, chunk_index, section_number, section_heading) ==
    [ id              |-> ChunkId(d.document_id, chunk_index),
      document_id     |-> d.document_id,
      document_type   |-> d.document_type,
      title           |-> d.title,
      content         |-> content,
      year            |-> d.year,
      section_number  |-> section_number,
      section_heading |-> section_heading,
      chunk_index     |-> chunk_index ]

\* section_text of chunk_section: the heading line, then every paragraph,
\* joined by blank lines.
SectionText(section) ==
    Join(<< "\n", "\n" >>,
         (IF Truthy(section.heading)
            THEN << << "#", "#", " " >> \o section.heading >>
            ELSE << >>)
         \o section.paragraphs)

\* Mutant of SliceEnd: the slice is one token too long.
SliceEndOneMore(start, n, c) == Min2(start + c.max + 1, n)

\* end = min(start + max_size, len(tokens))
SliceEnd(start, n, c) == Min2(start + c.max, n)

\* Mutant of SearchStart: the search starts half way through the slice.
SearchStartHalf(text) == Len(text) \div 2

\* search_start = int(len(chunk_text) * 0.8)
SearchStart(text) == (Len(text) * 4) \div 5

\* Mutant of NextStart: the cursor goes on where the chunk ended.
NextStartNoOverlap(end, n, c) == end

\* start = end - overlap if end < len(tokens) else end
NextStart(end, n, c) == IF end < n THEN end - c.overlap ELSE end

\* One pass of the while loop of chunk_text at cursor start.
ChunkTextStep(tokens, start, c) ==
    LET n            == Len(tokens)
        end0         == SliceEnd(start, n, c)
        chunk_tokens == PySlice(tokens, start, end0)
        text0        == Decode(chunk_tokens)
        search       == end0 < n /\ Len(chunk_tokens) >= c.min
        sentence_end == IF search THEN find_sentence_boundary(text0, SearchStart(text0)) ELSE -1
        cut          == search /\ sentence_end > 0
        text         == IF cut THEN SubSeq(text0, 1, sentence_end) ELSE text0
        end          == IF cut THEN start + Len(Encode(text)) ELSE end0
    IN  [ chunk  |-> text,
          start  |-> start,
          end0   |-> end0,
          end    |-> end,
          search |-> search,
          cut    |-> cut,
          next   |-> NextStart(end, n, c) ]

\* What the model keeps of a pass.
PassRecord(it) ==
    [ start |-> it.start, end0 |-> it.end0, end |-> it.end,
      search |-> it.search, cut |-> it.cut, next |-> it.next ]

\* ------------------------------------------------------------------ inputs

TextPieces ==
    { << "a", "a", "a", "a" >>, << "." >>, << " " >>, << "\n", "\n" >> }

FullTexts == { Flatten(ps) : ps \in SeqsUpTo(TextPieces, MaxPieces) }

\* Paragraphs as parse.py stores them: non-empty and stripped.
ParagraphLists ==
    { << >>,
      << << "a", "." >> >>,
      << << "a", "." >>, << "a", "a", "a", "a", ".", " ", "." >> >> }

\* A section without paragraphs comes with every number and heading; of the
\* sections with paragraphs, those that have exactly one of the two (one
\* paragraph) or both or neither (two paragraphs).
Sections ==
    { s \in [ number : { None, << "7" >> }, heading : { None, << "a" >> },
              paragraphs : ParagraphLists ] :
        \/ Len(s.paragraphs) = 0
        \/ Len(s.paragraphs) = 1 /\ (s.number = None) # (s.heading = None)
        \/ Len(s.paragraphs) = 2 /\ (s.number = None) = (s.heading = None) }

DocBase == [ document_id |-> << "d" >>, document_type |-> "statute",
             title |-> "t", year |-> 2024 ]

MakeDoc(sections, full_text) ==
    [ document_id   |-> DocBase.document_id,
      document_type |-> DocBase.document_type,
      title         |-> DocBase.title,
      year          |-> DocBase.year,
      sections      |-> sections,
      full_text     |-> full_text ]

\* parse.py stores a full_text beside the sections.
SectionedFullText == << "a", "a", "a", "a", "." >>

Docs ==
    { MakeDoc(ss, SectionedFullText) : ss \in SeqsUpTo(Sections, MaxSections) \ { << >> } }
    \cup { MakeDoc(<< >>, t) : t \in FullTexts }

\* MIN_CHUNK_SIZE, MAX_CHUNK_SIZE, OVERLAP_SIZE as read from the environment.
Configs == [ min : { 1, MaxCfg }, max : 1..MaxCfg, overlap : 0..MaxCfg ]

NoCfg == [ min |-> 0, max |-> 0, overlap |-> 0 ]

NoFrame == [ text |-> << >>, tokens |-> << >>, start |-> 0, chunks |-> << >>,
             passes |-> << >> ]

\* ------------------------------------------------------------------- state

VARIABLES
    pc,          \* "config", "idle", "section", "split", "returned", "raised",
                 \* "hang"
    cfg,         \* the chunking parameters
    doc,         \* the parsed document handed to chunk_document
    sec_i,       \* 1-based position of the section chunk_document is at
    chunks,      \* chunk_document's result list
    chunk_index, \* chunk_document's running index
    ct,          \* the chunk_text loop: text, tokens, cursor, pieces, and its
                 \* passes so far
    taken,       \* per section done, the number of records chunk_document took
    earlier      \* the lists the earlier calls of chunk_document returned

\* The pipeline around the chunker.
VARIABLES
    mode,        \* "single" for src/main.py, "staged" for the src-multi stages,
                 \* "embed" for stage 4, "index" for stage 5, "index_single"
                 \* for src/index.py, "off" when only the chunker runs
    skip,        \* SKIP_EXISTING
    parsed,      \* the parsed documents, in listing order
    containers,  \* the blob containers that exist
    chunk_blobs, \* container finlex-chunks: blob name -> records
    wk,          \* the calls of stage 3's process_document, one per worker
    batch,       \* chunk_documents: position in documents, all_chunks
    embedded_blobs, \* container finlex-embedded: blob name -> records
    emb          \* the call of stage 4's process_document

\* The search index and what leads to it.
VARIABLES
    archive,       \* the names of the source files the run started from
    search_index,  \* the index finlex-documents: key -> document
    indexed_blobs, \* container finlex-indexed: blob name -> record
    ix             \* the call of stage 5's process_document, or of
                   \* index_to_search

chunker == << pc, cfg, doc, sec_i, chunks, chunk_index, ct, taken, earlier >>

pipeline == << mode, skip, parsed, containers, chunk_blobs, wk, batch, embedded_blobs, emb >>

indexing == << archive, search_index, indexed_blobs, ix >>

vars == << chunker, pipeline, indexing >>

\* Nothing is indexed.
IndexingOff ==
    /\ archive = { }
    /\ search_index = << >>
    /\ indexed_blobs = << >>
    /\ ix = << >>

\* No pipeline runs.
PipelineOff ==
    /\ mode = "off"
    /\ skip = FALSE
    /\ parsed = << >>
    /\ containers = { }
    /\ chunk_blobs = << >>
    /\ wk = << >>
    /\ batch = << >>
    /\ embedded_blobs = << >>
    /\ emb = << >>
    /\ IndexingOff

Init ==
    /\ pc = "config"
    /\ cfg = NoCfg
    /\ doc \in Docs
    /\ sec_i = 0
    /\ chunks = << >>
    /\ chunk_index = 0
    /\ ct = NoFrame
    /\ taken = << >>
    /\ earlier = << >>
    /\ PipelineOff

\* Module load of stage3_chunk.py: the three sizes are read with int() and
\* stored as they are.
LoadConfig ==
    /\ pc = "config"
    /\ \E c \in Configs : cfg' = c
    /\ pc' = "idle"
    /\ UNCHANGED << doc, sec_i, chunks, chunk_index, ct, taken, earlier, pipeline, indexing >>

\* Mutant of Renumber: the records keep the index chunk_section gave them.
RenumberKeepsLocal(recs, from) == recs

\* chunk_document's inner loop over one section's records: the caller's
\* index replaces chunk_index, nothing else of the record changes.
Renumber(recs, from) ==
    [ i \in 1..Len(recs) |-> [ recs[i] EXCEPT !.chunk_index = from + i - 1 ] ]

\* Mutant of SectionRecords: the content is read from full_text.
SectionRecordsOfFullText(section, pieces) ==
    [ i \in 1..Len(pieces) |->
        create_chunk_dict(doc, doc.full_text, i - 1, section.number, section.heading) ]

\* The records chunk_section builds from the pieces of its section.
SectionRecords(section, pieces) ==
    [ i \in 1..Len(pieces) |->
        create_chunk_dict(doc, pieces[i], i - 1, section.number, section.heading) ]

\* The records chunk_document builds from the pieces of full_text.
FullTextRecords(pieces) ==
    [ i \in 1..Len(pieces) |-> create_chunk_dict(doc, pieces[i], i - 1, None, None) ]

\* chunk_document takes the records of the section at sec_i and moves on.
TakeSection(recs) ==
    /\ chunks' = chunks \o Renumber(recs, chunk_index)
    /\ chunk_index' = chunk_index + Len(recs)
    /\ taken' = Append(taken, Len(recs))
    /\ IF sec_i < Len(doc.sections)
         THEN pc' = "section" /\ sec_i' = sec_i + 1
         ELSE pc' = "returned" /\ sec_i' = sec_i

\* chunk_text(text) up to its loop: tokens, the early return, start = 0.
EnterChunkText(text) ==
    ct' = [ text |-> text, tokens |-> Encode(text), start |-> 0, chunks |-> << >>,
            passes |-> << >> ]

\* chunk_document(doc) is called.
ChunkDocument ==
    /\ pc = "idle"
    /\ IF doc.sections # << >>
         THEN /\ pc' = "section"
              /\ sec_i' = 1
              /\ UNCHANGED << chunks, chunk_index, ct >>
         ELSE IF doc.full_text # << >>
           THEN IF Len(Encode(doc.full_text)) <= cfg.max
                  THEN /\ chunks' = FullTextRecords(<< doc.full_text >>)
                       /\ pc' = "returned"
                       /\ UNCHANGED << sec_i, chunk_index, ct >>
                  ELSE /\ EnterChunkText(doc.full_text)
                       /\ pc' = "split"
                       /\ UNCHANGED << sec_i, chunks, chunk_index >>
           ELSE /\ pc' = "returned"
                /\ UNCHANGED << sec_i, chunks, chunk_index, ct >>
    /\ UNCHANGED << cfg, doc, taken, earlier, pipeline, indexing >>

\* chunk_section(doc, section) for the section at sec_i.  In its else
\* branch the name chunk_text is the target of the for loop that follows
\* the call, which makes it a local name of chunk_section for the whole
\* body: the call chunk_text(section_text, encoding) reads it unbound and
\* raises UnboundLocalError, which chunk_document does not catch.
ChunkSection ==
    /\ pc = "section"
    /\ LET section == doc.sections[sec_i]
           section_text == SectionText(section)
       IN  IF Len(Encode(section_text)) <= cfg.max
             THEN TakeSection(SectionRecords(section, << section_text >>))
             ELSE /\ pc' = "raised"
                  /\ UNCHANGED << sec_i, chunks, chunk_index, taken >>
    /\ UNCHANGED << cfg, doc, ct, earlier, pipeline, indexing >>

\* Whether the loop of chunk_text, about to start a pass at cursor next, can
\* be seen never to end.  A pass is a function of the cursor alone, so a
\* cursor value that comes back repeats for ever; and at a cursor so far
\* below zero that tokens[start:end] is empty from there down, every pass
\* moves it by max - overlap, which is no way up when overlap >= max.
Endless(next, seen, n, c) ==
    \/ next \in seen
    \/ next + c.max <= 0 - n /\ c.overlap >= c.max

\* One pass of chunk_text's while loop, which runs for full_text only; pc
\* "hang" stands for the loop that never ends.
ChunkTextIter ==
    /\ pc = "split"
    /\ LET it     == ChunkTextStep(ct.tokens, ct.start, cfg)
           pieces == Append(ct.chunks, it.chunk)
           passes == Append(ct.passes, PassRecord(it))
           seen   == { passes[k].start : k \in 1..Len(passes) }
       IN  /\ ct' = [ ct EXCEPT !.chunks = pieces, !.start = it.next, !.passes = passes ]
           /\ IF it.next >= Len(ct.tokens)
                THEN /\ chunks' = FullTextRecords(pieces)
                     /\ pc' = "returned"
                ELSE /\ pc' = IF Endless(it.next, seen, Len(ct.tokens), cfg)
                                THEN "hang" ELSE "split"
                     /\ UNCHANGED chunks
    /\ UNCHANGED << sec_i, chunk_index, taken >>
    /\ UNCHANGED << cfg, doc, earlier, pipeline, indexing >>

Next == LoadConfig \/ ChunkDocument \/ ChunkSection \/ ChunkTextIter

Spec == Init /\ [][Next]_vars

\* Mutant of FreshIndex: the index lives on between calls.
FreshIndexCarries(left) == left

\* chunk_index = 0 at the head of chunk_document, whatever the call before
\* left behind.
FreshIndex(left) == 0

\* chunk_document is called once more on the same document by the same
\* process: its locals start afresh, the tokenizer and the sizes stay.
CallAgain ==
    /\ pc = "returned"
    /\ Len(earlier) + 1 < MaxCalls
    /\ earlier' = Append(earlier, chunks)
    /\ pc' = "idle"
    /\ chunks' = << >>
    /\ chunk_index' = FreshIndex(chunk_index)
    /\ sec_i' = 0
    /\ ct' = NoFrame
    /\ taken' = << >>
    /\ UNCHANGED << cfg, doc, pipeline, indexing >>

NextTwice == LoadConfig \/ ChunkDocument \/ ChunkSection \/ ChunkTextIter \/ CallAgain

SpecTwice == Init /\ [][NextTwice]_vars

\* ------------------------------------------------ the default-size scenario

\* The sizes chunk.py is shipped with.
MIN_CHUNK_SIZE == 800

MAX_CHUNK_SIZE == 1000

OVERLAP_SIZE == 100

DefaultSizes == [ min |-> MIN_CHUNK_SIZE, max |-> MAX_CHUNK_SIZE, overlap |-> OVERLAP_SIZE ]

\* Most sentence ends in a scenario text.
MaxEnds == 2

\* Offsets at which a scenario text may have a sentence end.
EndPlaces == { 50 * k : k \in 16..34 }

\* A text of 2,500 tokens, one character each: full stops throughout, with
\* a space after the full stop at every offset of ends.
ScenarioText(ends) == [ i \in 1..2500 |-> IF i \in ends THEN " " ELSE "." ]

ScenarioDocs ==
    { MakeDoc(<< >>, ScenarioText(ends)) :
        ends \in { e \in SUBSET EndPlaces : Cardinality(e) <= MaxEnds } }

InitScenario ==
    /\ pc = "idle"
    /\ cfg = DefaultSizes
    /\ doc \in ScenarioDocs
    /\ sec_i = 0
    /\ chunks = << >>
    /\ chunk_index = 0
    /\ ct = NoFrame
    /\ taken = << >>
    /\ earlier = << >>
    /\ PipelineOff

NextScenario == ChunkDocument \/ ChunkTextIter

SpecScenario == InitScenario /\ [][NextScenario]_vars

\* ------------------------------------------------- the staged copy, whole

(***************************************************************************)
(* src-multi/stage3_chunk.py carries its own chunk_document, chunk_section *)
(* and chunk_text, which read MIN_CHUNK_SIZE, MAX_CHUNK_SIZE and            *)
(* OVERLAP_SIZE from the module.  They are written here as functions of    *)
(* the document and the sizes c; a call ends in one of three ways, told by *)
(* status: "ok" with the list returned, "raised" for an exception that     *)
(* leaves the function, "hang" for a loop that never ends.                 *)
(***************************************************************************)
Ok(list) == [ status |-> "ok", chunks |-> list ]

Raise == [ status |-> "raised", chunks |-> << >> ]

Hang == [ status |-> "hang", chunks |-> << >> ]

\* Mutant of chunk_text_loop: the cut piece is kept but end is not recomputed.
RECURSIVE chunk_text_loop_keeps_end(_, _, _, _, _)
chunk_text_loop_keeps_end(tokens, start, pieces, seen, c) ==
    IF ~(start < Len(tokens)) THEN Ok(pieces)
    ELSE IF Endless(start, seen, Len(tokens), c) THEN Hang
    ELSE LET it == ChunkTextStep(tokens, start, c)
         IN  chunk_text_loop_keeps_end(tokens, NextStart(it.end0, Len(tokens), c),
                                       Append(pieces, it.chunk), seen \cup { start }, c)

\* The while loop of stage3_chunk.py's chunk_text from cursor start on, with
\* the pieces appended and the cursor values seen so far.
RECURSIVE chunk_text_loop(_, _, _, _, _)
chunk_text_loop(tokens, start, pieces, seen, c) ==
    IF ~(start < Len(tokens)) THEN Ok(pieces)
    ELSE IF Endless(start, seen, Len(tokens), c) THEN Hang
    ELSE LET n            == Len(tokens)
             end0         == Min2(start + c.max, n)
             chunk_tokens == PySlice(tokens, start, end0)
             text0        == Decode(chunk_tokens)
             snap         == end0 < n /\ Len(chunk_tokens) >= c.min
             sentence_end == IF snap
                               THEN find_sentence_boundary(text0, (Len(text0) * 4) \div 5)
                               ELSE -1
             text         == IF sentence_end > 0 THEN SubSeq(text0, 1, sentence_end) ELSE text0
             end          == IF sentence_end > 0 THEN start + Len(Encode(text)) ELSE end0
         IN  chunk_text_loop(tokens, IF end < n THEN end - c.overlap ELSE end,
                             Append(pieces, text), seen \cup { start }, c)

\* stage3_chunk.py chunk_text(text, encoding)
chunk_text(text, c) ==
    LET tokens == Encode(text)
    IN  IF Len(tokens) <= c.max THEN Ok(<< text >>)
        ELSE chunk_text_loop(tokens, 0, << >>, { }, c)

\* stage3_chunk.py chunk_section(doc, section, encoding): as in chunk.py the
\* else branch binds chunk_text as its loop variable and so raises
\* UnboundLocalError at the call before the loop.
chunk_section(d, section, c) ==
    LET section_parts == (IF Truthy(section.heading)
                            THEN << << "#", "#", " " >> \o section.heading >>
                            ELSE << >>) \o section.paragraphs
        section_text  == Join(<< "\n", "\n" >>, section_parts)
    IN  IF Len(Encode(section_text)) <= c.max
          THEN Ok(<< create_chunk_dict(d, section_text, 0, section.number, section.heading) >>)
          ELSE Raise

\* The sections loop of stage3_chunk.py's chunk_document from section i on,
\* with the records appended so far; chunk_index is their number.
RECURSIVE chunk_document_sections(_, _, _, _)
chunk_document_sections(d, i, list, c) ==
    IF i > Len(d.sections) THEN Ok(list)
    ELSE LET got == chunk_section(d, d.sections[i], c)
         IN  IF got.status # "ok" THEN got
             ELSE chunk_document_sections(
                      d, i + 1,
                      list \o [ k \in 1..Len(got.chunks) |->
                                  [ got.chunks[k] EXCEPT !.chunk_index = Len(list) + k - 1 ] ],
                      c)

\* stage3_chunk.py chunk_document(doc, encoding)
chunk_document(d, c) ==
    IF d.sections # << >> THEN chunk_document_sections(d, 1, << >>, c)
    ELSE IF d.full_text # << >>
      THEN LET got == chunk_text(d.full_text, c)
           IN  IF got.status # "ok" THEN got
               ELSE Ok([ i \in 1..Len(got.chunks) |->
                           create_chunk_dict(d, got.chunks[i], i - 1, None, None) ])
      ELSE Ok(<< >>)

\* ------------------------------------------------------ stage 3 and batch

\* Most documents in a batch, which is also the most workers.
MaxDocs == 2
\* Most runs of stage 3's main over the same containers.
MaxRuns == 2

SetMax(S) == CHOOSE x \in S : \A y \in S : x >= y

\* TARGET_YEARS, one year of it.
Year == << "2", "0", "2", "4" >>

\* The document id of the n-th source file.
DocId(n) == << "d" >> \o Str(n)

\* f"{year}/{doc_id}.json": the name stage 2 stores a parsed document under.
ParsedBlob(year, doc_id) == year \o << "/" >> \o doc_id \o << ".", "j", "s", "o", "n" >>

\* s.split('/')[-1]
LastPart(s) ==
    LET slashes == { i \in 1..Len(s) : s[i] = "/" }
    IN  IF slashes = { } THEN s ELSE SubSeq(s, SetMax(slashes) + 1, Len(s))

\* s.replace(old, '')
RECURSIVE Remove(_, _)
Remove(s, old) ==
    IF Len(s) < Len(old) THEN s
    ELSE IF SubSeq(s, 1, Len(old)) = old THEN Remove(SubSeq(s, Len(old) + 1, Len(s)), old)
    ELSE << Head(s) >> \o Remove(Tail(s), old)

\* process_document: doc_id = blob_name.split('/')[-1].replace('.json', '')
\* and output_blob = f"{year}/{doc_id}.jsonl"
OutputBlob(blob_name, year) ==
    year \o << "/" >> \o Remove(LastPart(blob_name), << ".", "j", "s", "o", "n" >>)
         \o << ".", "j", "s", "o", "n", "l" >>

\* The sizes the pipeline runs with.
PipelineSizes == [ min |-> 1, max |-> 2, overlap |-> 1 ]

NoDocument == MakeDoc(<< >>, << >>)

\* Parsed documents of every kind: one section that fits, a full_text that
\* is split, a section too long for one chunk, nothing at all, and a
\* full_text on which the splitter does not end.
FitsDoc == MakeDoc(<< [ number |-> << "7" >>, heading |-> None,
                       paragraphs |-> << << "a", "." >> >> ] >>, SectionedFullText)

SplitDoc == MakeDoc(<< >>, << ".", " ", ".", " " >>)

LongSectionDoc ==
    MakeDoc(<< [ number |-> None, heading |-> None,
                 paragraphs |-> << << "a", "." >>, << "a", "a", "a", "a", ".", " ", "." >> >> ] >>,
            SectionedFullText)

EndlessDoc == MakeDoc(<< >>, << "a", "a", "a", "a", "\n", "\n", "." >>)

PipelineDocs == { FitsDoc, SplitDoc, LongSectionDoc, NoDocument, EndlessDoc }

\* stage 2: parsed_doc['document_id'] = doc_id
WithId(d, doc_id) == [ d EXCEPT !.document_id = doc_id ]

\* The parsed container for a list of documents, in listing order.
ParsedOf(ds) == [ n \in 1..Len(ds) |-> WithId(ds[n], DocId(n)) ]

\* The document stored under a name of the parsed container.
ParsedAt(name) ==
    parsed[CHOOSE n \in 1..Len(parsed) : ParsedBlob(Year, DocId(n)) = name]

\* json.dumps of a string, between its quotes: a line feed becomes the two
\* characters backslash and n.  (The texts here hold no quote, backslash or
\* other control character.)
Escape(s) ==
    Flatten([ i \in 1..Len(s) |-> IF s[i] = "\n" THEN << "\\", "n" >> ELSE << s[i] >> ])

\* json.loads of what Escape gives.
RECURSIVE Unescape(_)
Unescape(s) ==
    IF s = << >> THEN << >>
    ELSE IF Len(s) >= 2 /\ s[1] = "\\" /\ s[2] = "n"
      THEN << "\n" >> \o Unescape(SubSeq(s, 3, Len(s)))
      ELSE << Head(s) >> \o Unescape(Tail(s))

\* json.dumps(item, ensure_ascii=False) as far as its text goes: the braces
\* round the escaped content.  The other fields of the item are kept beside
\* the text, see Jsonl.
JsonLine(item) == << "{" >> \o Escape(item.content) \o << "}" >>

\* The bytes upload_jsonl makes of a list of items: '\n'.join(lines), and,
\* line by line, the fields other than the content.
Jsonl(items) ==
    [ text |-> Join(<< "\n" >>, [ i \in 1..Len(items) |-> JsonLine(items[i]) ]),
      rest |-> [ i \in 1..Len(items) |-> [ items[i] EXCEPT !.content = << >> ] ] ]

\* s.strip()
RECURSIVE Strip(_)
Strip(s) ==
    IF s = << >> THEN s
    ELSE IF IsSpace(Head(s)) THEN Strip(Tail(s))
    ELSE IF IsSpace(s[Len(s)]) THEN Strip(SubSeq(s, 1, Len(s) - 1))
    ELSE s

\* s.find(c, i), 1-based, and 0 where Python gives -1.
RECURSIVE Find(_, _, _)
Find(s, c, i) ==
    IF i > Len(s) THEN 0
    ELSE IF s[i] = c THEN i
    ELSE Find(s, c, i + 1)

\* s.split('\n'): the parts between the line feeds, taken at a line feed
\* of the second half first so that long texts stay shallow.
RECURSIVE Split(_)
Split(s) ==
    LET m == Find(s, "\n", (Len(s) \div 2) + 1)
        k == IF m # 0 THEN m ELSE Find(s, "\n", 1)
    IN  IF k = 0 THEN << s >>
        ELSE Split(SubSeq(s, 1, k - 1)) \o Split(SubSeq(s, k + 1, Len(s)))

\* download_jsonl, from the bytes on: strip, split into lines, and
\* json.loads of every line that is not blank.
download_jsonl(blob) ==
    LET lines == Split(Strip(blob.text))
        kept == SelectSeq(lines, LAMBDA line : Strip(line) # << >>)
    IN  [ i \in 1..Len(kept) |->
            [ blob.rest[i] EXCEPT !.content = Unescape(SubSeq(kept[i], 2, Len(kept[i]) - 1)) ] ]

\* What an earlier run left under the output name of document n: the one
\* record of the text the document had then.
OldRecords(n) ==
    << create_chunk_dict(WithId(NoDocument, DocId(n)), << "o", "l", "d" >>, 0, None, None) >>

\* The chunks container with the leftovers of the documents in olds.
StoreWith(olds) ==
    [ name \in { OutputBlob(ParsedBlob(Year, DocId(n)), Year) : n \in olds } |->
        Jsonl(OldRecords(CHOOSE n \in olds : OutputBlob(ParsedBlob(Year, DocId(n)), Year) = name)) ]

CONTAINER_CHUNKS == "finlex-chunks"

\* The containers there can be beside the given leftovers: the parsed one,
\* and the chunks one, which is there for sure when it holds a blob.
ContainersFor(olds) ==
    IF olds = { } THEN { { "finlex-parsed" }, { "finlex-parsed", CONTAINER_CHUNKS } }
    ELSE { { "finlex-parsed", CONTAINER_CHUNKS } }

\* upload_jsonl: the blob is replaced by the lines of the items.
upload_jsonl(store, name, items) == (name :> Jsonl(items)) @@ store

\* Mutant of blob_exists: True for every name.
blob_exists_always(store, name, raises) == TRUE

\* blob_exists: True when get_blob_properties returns, False when it raises,
\* for a missing blob as for any other reason.
blob_exists(store, name, raises) ==
    IF name \notin DOMAIN store THEN FALSE
    ELSE IF raises THEN FALSE
    ELSE TRUE

\* A call of process_document that has not begun.
NoCall == [ pc |-> "idle", blob |-> << >>, output |-> << >>, doc |-> NoDocument,
            chunks |-> << >>, ret |-> 0, failed |-> FALSE, fault |-> FALSE,
            wrote |-> { }, old |-> FALSE ]

\* The chunker's own variables while a pipeline runs: the sizes only.
ChunkerInPipeline ==
    /\ pc = "off"
    /\ cfg = PipelineSizes
    /\ doc = NoDocument
    /\ sec_i = 0
    /\ chunks = << >>
    /\ chunk_index = 0
    /\ ct = NoFrame
    /\ taken = << >>
    /\ earlier = << >>

\* src/main.py hands the parsed documents to chunk_documents, or stage 3's
\* main lists them in the parsed container, where earlier runs may have
\* left chunk blobs.
InitBatch ==
    /\ ChunkerInPipeline
    /\ \E ds \in SeqsUpTo(PipelineDocs, MaxDocs) : parsed = ParsedOf(ds)
    /\ \/ /\ mode = "single"
          /\ skip = FALSE
          /\ containers = { }
          /\ chunk_blobs = << >>
          /\ wk = << >>
          /\ batch = [ i |-> 1, all_chunks |-> << >>, pc |-> "loop" ]
       \/ /\ mode = "staged"
          /\ skip \in BOOLEAN
          /\ \E olds \in SUBSET (1..Len(parsed)) :
                /\ chunk_blobs = StoreWith(olds)
                /\ containers \in ContainersFor(olds)
          /\ wk = << NoCall >>
          /\ batch = [ i |-> 1, run |-> 1, docs_processed |-> 0 ]
    /\ embedded_blobs = << >>
    /\ emb = << >>
    /\ IndexingOff

\* One worker per parsed document, all started together.
InitWorkers ==
    /\ ChunkerInPipeline
    /\ \E ds \in SeqsUpTo(PipelineDocs \ { EndlessDoc, NoDocument }, MaxDocs) \ { << >> } :
          parsed = ParsedOf(ds)
    /\ mode = "workers"
    /\ skip \in BOOLEAN
    /\ \E olds \in SUBSET (1..Len(parsed)) :
          /\ chunk_blobs = StoreWith(olds)
          /\ containers \in ContainersFor(olds)
          /\ wk = [ w \in 1..Len(parsed) |-> [ NoCall EXCEPT !.old = w \in olds ] ]
    /\ batch = << >>
    /\ embedded_blobs = << >>
    /\ emb = << >>
    /\ IndexingOff

\* process_document(blob_name, year) is entered by worker w.
Enter(w, name) ==
    wk' = [ wk EXCEPT ![w] = [ NoCall EXCEPT !.pc = "check",
                                            !.blob = name,
                                            !.output = OutputBlob(name, Year),
                                            !.wrote = wk[w].wrote,
                                            !.old = wk[w].old ] ]

\* main: the next blob of the listing goes to process_document.
MainCall ==
    /\ mode = "staged"
    /\ wk[1].pc = "idle"
    /\ batch.i <= Len(parsed)
    /\ Enter(1, ParsedBlob(Year, DocId(batch.i)))
    /\ UNCHANGED << chunker, indexing, mode, skip, parsed, containers, chunk_blobs, batch, embedded_blobs, emb >>

\* A worker of its own takes the blob of its document.
WorkerCall ==
    /\ mode = "workers"
    /\ \E w \in DOMAIN wk :
          /\ wk[w].pc = "idle"
          /\ Enter(w, ParsedBlob(Year, DocId(w)))
    /\ UNCHANGED << chunker, indexing, mode, skip, parsed, containers, chunk_blobs, batch, embedded_blobs, emb >>

\* if SKIP_EXISTING and blob_exists(CONTAINER_CHUNKS, output_blob): return 0
CheckExisting ==
    /\ \E w \in DOMAIN wk :
          /\ wk[w].pc = "check"
          /\ \E raises \in BOOLEAN :
                /\ raises => (skip /\ wk[w].output \in DOMAIN chunk_blobs)
                /\ IF skip /\ blob_exists(chunk_blobs, wk[w].output, raises)
                     THEN wk' = [ wk EXCEPT ![w].pc = "done", ![w].ret = 0 ]
                     ELSE wk' = [ wk EXCEPT ![w].pc = "download", ![w].fault = raises ]
    /\ UNCHANGED << chunker, indexing, mode, skip, parsed, containers, chunk_blobs, batch, embedded_blobs, emb >>

\* doc = download_json(CONTAINER_PARSED, blob_name)
Download ==
    /\ \E w \in DOMAIN wk :
          /\ wk[w].pc = "download"
          /\ wk' = [ wk EXCEPT ![w].pc = "chunk", ![w].doc = ParsedAt(wk[w].blob) ]
    /\ UNCHANGED << chunker, indexing, mode, skip, parsed, containers, chunk_blobs, batch, embedded_blobs, emb >>

\* chunks = chunk_document(doc, encoding); an exception ends the call in the
\* except clause, an empty list in the warning, both with return 0.
ChunkStep ==
    /\ \E w \in DOMAIN wk :
          /\ wk[w].pc = "chunk"
          /\ LET got == chunk_document(wk[w].doc, cfg)
             IN  wk' = [ wk EXCEPT ![w] =
                    CASE got.status = "raised" ->
                           [ @ EXCEPT !.pc = "done", !.ret = 0, !.failed = TRUE ]
                      [] got.status = "hang" -> [ @ EXCEPT !.pc = "hang" ]
                      [] got.status = "ok" /\ got.chunks = << >> ->
                           [ @ EXCEPT !.pc = "done", !.ret = 0 ]
                      [] OTHER -> [ @ EXCEPT !.pc = "ensure", !.chunks = got.chunks ] ]
    /\ UNCHANGED << chunker, indexing, mode, skip, parsed, containers, chunk_blobs, batch, embedded_blobs, emb >>

\* upload_jsonl -> upload_blob -> ensure_container_exists, its try:
\* get_container_properties returns for a container that exists and raises
\* for one that does not.
EnsureContainer ==
    /\ \E w \in DOMAIN wk :
          /\ wk[w].pc = "ensure"
          /\ wk' = [ wk EXCEPT ![w].pc = IF CONTAINER_CHUNKS \in containers
                                            THEN "upload" ELSE "create" ]
    /\ UNCHANGED << chunker, indexing, mode, skip, parsed, containers, chunk_blobs, batch, embedded_blobs, emb >>

\* ensure_container_exists, its except: create_container, which raises
\* ResourceExistsError when the container has come to exist meanwhile; the
\* exception leaves upload_blob and ends process_document in its except
\* clause, with return 0.
CreateContainer ==
    /\ \E w \in DOMAIN wk :
          /\ wk[w].pc = "create"
          /\ IF CONTAINER_CHUNKS \in containers
               THEN /\ wk' = [ wk EXCEPT ![w].pc = "done", ![w].ret = 0, ![w].failed = TRUE ]
                    /\ UNCHANGED containers
               ELSE /\ wk' = [ wk EXCEPT ![w].pc = "upload" ]
                    /\ containers' = containers \cup { CONTAINER_CHUNKS }
    /\ UNCHANGED << chunker, indexing, mode, skip, parsed, chunk_blobs, batch, embedded_blobs, emb >>

\* blob_client.upload_blob(data, overwrite=True); return len(chunks)
Upload ==
    /\ \E w \in DOMAIN wk :
          /\ wk[w].pc = "upload"
          /\ chunk_blobs' = upload_jsonl(chunk_blobs, wk[w].output, wk[w].chunks)
          /\ wk' = [ wk EXCEPT ![w].pc = "done", ![w].ret = Len(wk[w].chunks),
                                ![w].wrote = @ \cup { wk[w].output } ]
    /\ UNCHANGED << chunker, indexing, mode, skip, parsed, containers, batch, embedded_blobs, emb >>

\* main: chunk_count = process_document(...); counted when above zero; on
\* to the next blob.
MainTake ==
    /\ mode = "staged"
    /\ wk[1].pc = "done"
    /\ batch' = [ batch EXCEPT !.i = @ + 1,
                               !.docs_processed = IF wk[1].ret > 0 THEN @ + 1 ELSE @ ]
    /\ wk' = [ wk EXCEPT ![1] = [ NoCall EXCEPT !.wrote = wk[1].wrote ] ]
    /\ UNCHANGED << chunker, indexing, mode, skip, parsed, containers, chunk_blobs, embedded_blobs, emb >>

\* Stage 3 is run again over the same containers.
MainAgain ==
    /\ mode = "staged"
    /\ batch.i > Len(parsed)
    /\ batch.run < MaxRuns
    /\ batch' = [ i |-> 1, run |-> batch.run + 1, docs_processed |-> 0 ]
    /\ UNCHANGED << chunker, indexing, mode, skip, parsed, containers, chunk_blobs, wk, embedded_blobs, emb >>

\* Mutant of AfterDocument: a failure empties the list.
AfterDocumentDropsAll(all_chunks, got) ==
    IF got.status = "ok" THEN all_chunks \o got.chunks ELSE << >>

\* chunk_documents, the body of its loop: all_chunks.extend(doc_chunks), or
\* the except clause, which logs and goes on.
AfterDocument(all_chunks, got) ==
    IF got.status = "ok" THEN all_chunks \o got.chunks ELSE all_chunks

\* chunk_documents: one document of the batch.
ChunkDocumentsStep ==
    /\ mode = "single"
    /\ batch.pc = "loop"
    /\ batch.i <= Len(parsed)
    /\ LET got == chunk_document(parsed[batch.i], cfg)
       IN  batch' = IF got.status = "hang"
                      THEN [ batch EXCEPT !.pc = "hang" ]
                      ELSE [ batch EXCEPT !.i = @ + 1,
                                          !.all_chunks = AfterDocument(@, got) ]
    /\ UNCHANGED << chunker, indexing, mode, skip, parsed, containers, chunk_blobs, wk, embedded_blobs, emb >>

NextBatch ==
    \/ ChunkDocumentsStep
    \/ MainCall \/ CheckExisting \/ Download \/ ChunkStep
    \/ EnsureContainer \/ CreateContainer \/ Upload
    \/ MainTake \/ MainAgain

SpecBatch == InitBatch /\ [][NextBatch]_vars

NextWorkers ==
    \/ WorkerCall \/ CheckExisting \/ Download \/ ChunkStep
    \/ EnsureContainer \/ CreateContainer \/ Upload

SpecWorkers == InitWorkers /\ [][NextWorkers]_vars

\* ----------------------------------------------------------------- stage 4

\* Azure OpenAI max per request.
BATCH_SIZE == 16

CONTAINER_EMBEDDED == "finlex-embedded"

\* AZURE_OPENAI_DIMENSIONS, kept small.
Dimensions == 2

\* How many chunks a document of stage 3 can have come to: one batch that is
\* not full, one that is, one chunk more, and a third batch.
ChunkCounts == { 1, BATCH_SIZE, BATCH_SIZE + 1, 2 * BATCH_SIZE + 1 }

\* The records stage 3 stored for the n-th document, len of them; every
\* other content has blank lines in it.
ChunksOfLen(n, len) ==
    [ k \in 1..len |->
        create_chunk_dict(WithId(NoDocument, DocId(n)),
                          IF k % 2 = 0 THEN << "a", "\n", "\n", "a", "." >> ELSE << "a", "." >>,
                          k - 1, None, None) ]

\* The chunks container for a list of chunk counts.
ChunkStore(lens) ==
    [ name \in { OutputBlob(ParsedBlob(Year, DocId(n)), Year) : n \in 1..Len(lens) } |->
        LET n == CHOOSE m \in 1..Len(lens) : OutputBlob(ParsedBlob(Year, DocId(m)), Year) = name
        IN  Jsonl(ChunksOfLen(n, lens[n])) ]

\* The vector the service gives for a text; a deployment may answer with
\* another dimension than the one asked for (long).
Embedding(text, long) ==
    IF long THEN [ d \in 1..(Dimensions + 1) |-> Len(text) ]
    ELSE [ d \in 1..Dimensions |-> Len(text) ]

\* chunk['content_vector'] = embedding
WithVector(chunk, v) == [ f \in DOMAIN chunk \cup { "content_vector" } |->
                            IF f = "content_vector" THEN v ELSE chunk[f] ]

\* generate_embeddings_batch when the request succeeds: every chunk of the
\* batch gets its vector; an unexpected dimension is logged and kept.
generate_embeddings_batch(list, long) ==
    [ i \in 1..Len(list) |-> WithVector(list[i], Embedding(list[i].content, long)) ]

\* Mutant of BatchOf: a slice one short.
BatchOfShort(list, i) == PySlice(list, i, i + BATCH_SIZE - 1)

\* batch = chunks[i:i + BATCH_SIZE]
BatchOf(list, i) == PySlice(list, i, i + BATCH_SIZE)

\* What an earlier run of stage 4 left for the n-th document: the embedded
\* records of the one chunk the document had then.
OldEmbedded(n) == generate_embeddings_batch(OldRecords(n), FALSE)

EmbeddedStoreWith(olds) ==
    [ name \in { OutputBlob(ParsedBlob(Year, DocId(n)), Year) : n \in olds } |->
        Jsonl(OldEmbedded(CHOOSE n \in olds : OutputBlob(ParsedBlob(Year, DocId(n)), Year) = name)) ]

\* doc_id = blob_name.split('/')[-1].replace('.jsonl', '') and
\* output_blob = f"{year}/{doc_id}.jsonl"
EmbeddedBlob(blob_name, year) ==
    year \o << "/" >> \o Remove(LastPart(blob_name), << ".", "j", "s", "o", "n", "l" >>)
         \o << ".", "j", "s", "o", "n", "l" >>

\* A call of stage 4's process_document, or of generate_embeddings, that
\* has not begun.
NoEmbedCall == [ pc |-> "idle", blob |-> << >>, output |-> << >>, chunks |-> << >>,
                 i |-> 0, embedded_chunks |-> << >>, ret |-> 0, failed |-> FALSE,
                 wrote |-> { }, olds |-> { } ]

\* Stage 4's main lists the chunk blobs of stage 3, where an earlier run may
\* have left embedded blobs; or src/main.py hands the chunks of a run to
\* generate_embeddings, with or without AZURE_OPENAI_ENDPOINT set.
InitEmbed ==
    /\ ChunkerInPipeline
    /\ IndexingOff
    /\ parsed = << >>
    /\ wk = << >>
    /\ \/ /\ mode = "embed"
          /\ skip \in BOOLEAN
          /\ \E lens \in SeqsUpTo(ChunkCounts, MaxDocs) \ { << >> } :
                /\ chunk_blobs = ChunkStore(lens)
                /\ \E olds \in SUBSET (1..Len(lens)) :
                      /\ embedded_blobs = EmbeddedStoreWith(olds)
                      /\ containers \in
                            IF olds = { } THEN { { CONTAINER_CHUNKS },
                                                 { CONTAINER_CHUNKS, CONTAINER_EMBEDDED } }
                            ELSE { { CONTAINER_CHUNKS, CONTAINER_EMBEDDED } }
                      /\ emb = [ NoEmbedCall EXCEPT !.olds = olds ]
          /\ \E long \in BOOLEAN : batch = [ i |-> 1, long |-> long ]
       \/ /\ mode = "embed_single"
          /\ skip = FALSE
          /\ containers = { }
          /\ chunk_blobs = << >>
          /\ embedded_blobs = << >>
          /\ \E len \in ChunkCounts \cup { 0 }, endpoint \in BOOLEAN :
                /\ emb = [ NoEmbedCall EXCEPT !.chunks = ChunksOfLen(1, len) ]
                /\ \E long \in BOOLEAN : batch = [ endpoint |-> endpoint, long |-> long ]

\* The listing of the chunks container, in order.
ChunkBlobName(n) == OutputBlob(ParsedBlob(Year, DocId(n)), Year)

\* main: the next chunk blob of the listing goes to process_document.
Stage4Call ==
    /\ mode = "embed"
    /\ emb.pc = "idle"
    /\ ChunkBlobName(batch.i) \in DOMAIN chunk_blobs
    /\ emb' = [ NoEmbedCall EXCEPT !.pc = "check",
                                   !.blob = ChunkBlobName(batch.i),
                                   !.output = EmbeddedBlob(ChunkBlobName(batch.i), Year),
                                   !.wrote = emb.wrote,
                                   !.olds = emb.olds ]
    /\ UNCHANGED << chunker, indexing, mode, skip, parsed, containers, chunk_blobs, wk, batch, embedded_blobs >>

\* if SKIP_EXISTING and blob_exists(CONTAINER_EMBEDDED, output_blob): return 0
Stage4Check ==
    /\ mode = "embed"
    /\ emb.pc = "check"
    /\ \E raises \in BOOLEAN :
          /\ raises => (skip /\ emb.output \in DOMAIN embedded_blobs)
          /\ IF skip /\ blob_exists(embedded_blobs, emb.output, raises)
               THEN emb' = [ emb EXCEPT !.pc = "done", !.ret = 0 ]
               ELSE emb' = [ emb EXCEPT !.pc = "download" ]
    /\ UNCHANGED << chunker, indexing, mode, skip, parsed, containers, chunk_blobs, wk, batch, embedded_blobs >>

\* chunks = download_jsonl(CONTAINER_CHUNKS, blob_name); if not chunks: return 0
Stage4Download ==
    /\ mode = "embed"
    /\ emb.pc = "download"
    /\ LET got == download_jsonl(chunk_blobs[emb.blob])
       IN  emb' = IF got = << >>
                    THEN [ emb EXCEPT !.pc = "done", !.ret = 0 ]
                    ELSE [ emb EXCEPT !.pc = "batch", !.chunks = got, !.i = 0,
                                      !.embedded_chunks = << >> ]
    /\ UNCHANGED << chunker, indexing, mode, skip, parsed, containers, chunk_blobs, wk, batch, embedded_blobs >>

\* One pass of the batch loop: the request either succeeds, and the batch
\* with its vectors is added to the list, or raises (the service refuses, or
\* answers with fewer vectors than texts, so that response.data[i] raises),
\* which generate_embeddings_batch logs and raises again.
EmbedPass(after, caught) ==
    /\ emb.pc = "batch"
    /\ emb.i < Len(emb.chunks)
    /\ \E outcome \in { "ok", "raises", "few" } :
          IF outcome = "ok"
            THEN emb' = [ emb EXCEPT
                    !.embedded_chunks =
                        @ \o generate_embeddings_batch(BatchOf(emb.chunks, emb.i), batch.long),
                    !.i = @ + BATCH_SIZE,
                    !.pc = IF emb.i + BATCH_SIZE < Len(emb.chunks) THEN "batch" ELSE after ]
            ELSE emb' = [ emb EXCEPT !.pc = caught, !.ret = 0, !.failed = TRUE ]

\* for i in range(0, len(chunks), BATCH_SIZE): ...; an exception ends the
\* call in process_document's except clause, with return 0.
Stage4Batch ==
    /\ mode = "embed"
    /\ EmbedPass("ensure", "done")
    /\ UNCHANGED << chunker, indexing, mode, skip, parsed, containers, chunk_blobs, wk, batch, embedded_blobs >>

\* upload_jsonl -> upload_blob -> ensure_container_exists, its try.
Stage4Ensure ==
    /\ mode = "embed"
    /\ emb.pc = "ensure"
    /\ emb' = [ emb EXCEPT !.pc = IF CONTAINER_EMBEDDED \in containers
                                    THEN "upload" ELSE "create" ]
    /\ UNCHANGED << chunker, indexing, mode, skip, parsed, containers, chunk_blobs, wk, batch, embedded_blobs >>

\* ensure_container_exists, its except: create_container.
Stage4Create ==
    /\ mode = "embed"
    /\ emb.pc = "create"
    /\ IF CONTAINER_EMBEDDED \in containers
         THEN /\ emb' = [ emb EXCEPT !.pc = "done", !.ret = 0, !.failed = TRUE ]
              /\ UNCHANGED containers
         ELSE /\ emb' = [ emb EXCEPT !.pc = "upload" ]
              /\ containers' = containers \cup { CONTAINER_EMBEDDED }
    /\ UNCHANGED << chunker, indexing, mode, skip, parsed, chunk_blobs, wk, batch, embedded_blobs >>

\* upload_jsonl(CONTAINER_EMBEDDED, output_blob, embedded_chunks);
\* return len(embedded_chunks)
Stage4Upload ==
    /\ mode = "embed"
    /\ emb.pc = "upload"
    /\ embedded_blobs' = upload_jsonl(embedded_blobs, emb.output, emb.embedded_chunks)
    /\ emb' = [ emb EXCEPT !.pc = "done", !.ret = Len(emb.embedded_chunks),
                           !.wrote = @ \cup { emb.output } ]
    /\ UNCHANGED << chunker, indexing, mode, skip, parsed, containers, chunk_blobs, wk, batch >>

\* main: chunk_count = process_document(blob_name, year); on to the next.
Stage4Take ==
    /\ mode = "embed"
    /\ emb.pc = "done"
    /\ batch' = [ batch EXCEPT !.i = @ + 1 ]
    /\ emb' = [ NoEmbedCall EXCEPT !.wrote = emb.wrote, !.olds = emb.olds ]
    /\ UNCHANGED << chunker, indexing, mode, skip, parsed, containers, chunk_blobs, wk, embedded_blobs >>

\* generate_embeddings of src/embed.py is entered: without the endpoint it
\* raises at once; with no chunks the loop is not entered.
GenerateEmbeddingsCall ==
    /\ mode = "embed_single"
    /\ emb.pc = "idle"
    /\ emb' = [ emb EXCEPT !.pc = IF ~batch.endpoint THEN "raised"
                                    ELSE IF emb.chunks = << >> THEN "returned"
                                    ELSE "batch",
                           !.failed = ~batch.endpoint ]
    /\ UNCHANGED << chunker, indexing, mode, skip, parsed, containers, chunk_blobs, wk, batch, embedded_blobs >>

\* generate_embeddings, one pass of its loop; the list is returned after
\* the last pass, and an exception is logged and raised again.
GenerateEmbeddingsPass ==
    /\ mode = "embed_single"
    /\ EmbedPass("returned", "raised")
    /\ UNCHANGED << chunker, indexing, mode, skip, parsed, containers, chunk_blobs, wk, batch, embedded_blobs >>

NextEmbed ==
    \/ Stage4Call \/ Stage4Check \/ Stage4Download \/ Stage4Batch
    \/ Stage4Ensure \/ Stage4Create \/ Stage4Upload \/ Stage4Take
    \/ GenerateEmbeddingsCall \/ GenerateEmbeddingsPass

SpecEmbed == InitEmbed /\ [][NextEmbed]_vars

\* ---------------------------------------------------------- boundary finder

\* Longest text handed to find_sentence_boundary on its own.
MaxText == 4

\* The characters of those texts: a letter, the three sentence ends, and
\* the two kinds of white space.
BoundaryChars == { "a", ".", "!", "?", " ", "\n" }

\* find_sentence_boundary is about to be called on a text at an offset of
\* it, as chunk_text calls it on a decoded slice.
InitBoundary ==
    /\ ChunkerInPipeline
    /\ mode = "boundary"
    /\ skip = FALSE
    /\ parsed = << >>
    /\ containers = { }
    /\ chunk_blobs = << >>
    /\ wk = << >>
    /\ embedded_blobs = << >>
    /\ emb = << >>
    /\ IndexingOff
    /\ \E text \in SeqsUpTo(BoundaryChars, MaxText) : \E start_pos \in 0..Len(text) :
          batch = [ pc |-> "call", text |-> text, start_pos |-> start_pos,
                    sentence_end |-> 0, chunk_text |-> text ]

\* sentence_end = find_sentence_boundary(chunk_text, search_start)
FindSentenceBoundary ==
    /\ mode = "boundary"
    /\ batch.pc = "call"
    /\ batch' = [ batch EXCEPT !.pc = "returned",
                               !.sentence_end = find_sentence_boundary(batch.text, batch.start_pos) ]
    /\ UNCHANGED << chunker, indexing, mode, skip, parsed, containers, chunk_blobs, wk, embedded_blobs, emb >>

\* if sentence_end > 0: chunk_text = chunk_text[:sentence_end]
TakeBoundary ==
    /\ mode = "boundary"
    /\ batch.pc = "returned"
    /\ batch' = [ batch EXCEPT !.pc = "taken",
                               !.chunk_text = IF batch.sentence_end > 0
                                                THEN PySlice(@, 0, batch.sentence_end)
                                                ELSE @ ]
    /\ UNCHANGED << chunker, indexing, mode, skip, parsed, containers, chunk_blobs, wk, embedded_blobs, emb >>

NextBoundary == FindSentenceBoundary \/ TakeBoundary

SpecBoundary == InitBoundary /\ [][NextBoundary]_vars

\* ----------------------------------------------------------------- stage 5

\* Most source files of an archive.
MaxFiles == 2

\* Documents per upload request of stage 5.
STAGE5_BATCH_SIZE == 100

\* Documents per upload request of src/index.py.
INDEX_BATCH_SIZE == 1000

CONTAINER_INDEXED == "finlex-indexed"

\* TARGET_YEARS as it is when the environment does not set it.
TARGET_YEARS == << Year, << "2", "0", "2", "5" >> >>

\* The base names the source files of a year have, in alphabetical order:
\* the numbers of the statutes, which start again every year.
BaseNames == << << "1" >>, << "2" >> >>

\* prefix = f"akn/fi/act/statute-consolidated/{year}/"
ArchivePrefix(year) ==
    << "a", "k", "n", "/", "f", "i", "/", "a", "c", "t", "/",
       "s", "t", "a", "t", "u", "t", "e", "-",
       "c", "o", "n", "s", "o", "l", "i", "d", "a", "t", "e", "d", "/" >> \o year \o << "/" >>

\* A name of the archive, like akn/fi/act/statute-consolidated/2024/1234.xml
SourceFile(year, base) == ArchivePrefix(year) \o base \o << ".", "x", "m", "l" >>

\* Every such name, in alphabetical order.
SourceFileList ==
    [ k \in 1..(Len(TARGET_YEARS) * Len(BaseNames)) |->
        SourceFile(TARGET_YEARS[((k - 1) \div Len(BaseNames)) + 1],
                   BaseNames[((k - 1) % Len(BaseNames)) + 1]) ]

\* s.startswith(p)
StartsWith(s, p) == Len(s) >= Len(p) /\ SubSeq(s, 1, Len(p)) = p

\* s.endswith(p)
EndsWith(s, p) == Len(s) >= Len(p) /\ SubSeq(s, Len(s) - Len(p) + 1, Len(s)) = p

\* The target year whose prefix the name starts with.
YearOf(file_name) ==
    CHOOSE y \in { TARGET_YEARS[k] : k \in DOMAIN TARGET_YEARS } :
        StartsWith(file_name, ArchivePrefix(y)) /\ EndsWith(file_name, << ".", "x", "m", "l" >>)

\* basename = parts[-1]; doc_id = basename.replace('.xml', '')
extract_document_id(filename) == Remove(LastPart(filename), << ".", "x", "m", "l" >>)

\* Stage 1: doc_id = file_name.split('/')[-1].replace('.xml', '') and
\* blob_name = f"{year}/{doc_id}.xml"
RawBlob(file_name, year) ==
    year \o << "/" >> \o Remove(LastPart(file_name), << ".", "x", "m", "l" >>)
         \o << ".", "x", "m", "l" >>

\* Stage 2: doc_id = blob_name.split('/')[-1].replace('.xml', '')
Stage2DocId(blob_name) == Remove(LastPart(blob_name), << ".", "x", "m", "l" >>)

\* Stage 2: parsed_doc['document_id'] = doc_id; parsed_doc['year'] = year
ParsedFromRaw(blob_name, year) ==
    [ WithId(NoDocument, Stage2DocId(blob_name)) EXCEPT !.year = year ]

\* parse_finlex_documents: doc['year'] = xml_file['year'] and
\* doc['document_id'] = extract_document_id(xml_file['filename'])
ParsedFromFile(file_name) ==
    [ WithId(NoDocument, extract_document_id(file_name)) EXCEPT !.year = YearOf(file_name) ]

\* The name of the embedded blob a source file comes to, through the names
\* the stages 1 to 4 give.
EmbeddedNameOf(file_name) ==
    LET year == YearOf(file_name)
        raw == RawBlob(file_name, year)
        parsed_name == ParsedBlob(year, Stage2DocId(raw))
    IN  EmbeddedBlob(OutputBlob(parsed_name, year), year)

\* len chunk records of a parsed document, with their vectors.
EmbeddedRecords(d, len) ==
    generate_embeddings_batch(
        [ k \in 1..len |-> create_chunk_dict(d, << "a", "." >>, k - 1, None, None) ], FALSE)

\* How many chunks a document can have: one, and one more than a request
\* of stage 5 takes.
IndexCounts == { 1, STAGE5_BATCH_SIZE + 1 }

\* The embedded container the stages 1 to 4 make of the source files, cnt
\* chunks for each.
EmbeddedFrom(files, cnt) ==
    [ name \in { EmbeddedNameOf(f) : f \in files } |->
        LET f == CHOOSE g \in files : EmbeddedNameOf(g) = name
        IN  Jsonl(EmbeddedRecords(ParsedFromRaw(RawBlob(f, YearOf(f)), YearOf(f)), cnt[f])) ]

\* list_blobs(container, prefix): the names that start with the prefix, in
\* alphabetical order.
list_blobs(store, prefix) ==
    SelectSeq([ k \in DOMAIN SourceFileList |-> EmbeddedNameOf(SourceFileList[k]) ],
              LAMBDA name : name \in DOMAIN store /\ StartsWith(name, prefix))

\* What the service can answer to an upload request: every document taken,
\* the first one refused, or no answer but an exception.
UploadOutcomes == { "all", "some", "raised" }

\* The documents of a request the service took.
Succeeded(documents, outcome) ==
    CASE outcome = "all" -> documents
      [] outcome = "some" -> Tail(documents)
      [] OTHER -> << >>

\* upload_documents: a document replaces the one the index has under its
\* key; of two documents with one key the later one stays.
upload_documents(index, documents) ==
    LET keys == { documents[k].id : k \in DOMAIN documents }
    IN  [ key \in keys \cup DOMAIN index |->
            IF key \in keys
              THEN documents[SetMax({ k \in DOMAIN documents : documents[k].id = key })]
              ELSE index[key] ]

\* chunk_to_search_document: the fields of the index, taken from the chunk.
chunk_to_search_document(chunk) ==
    [ f \in { "id", "document_id", "document_type", "title", "content", "content_vector",
              "year", "section_number", "section_heading", "chunk_index" } |-> chunk[f] ]

\* Mutant of RangeHas: the loop ends one request early.
RangeHasShort(i, stop, step) == i + step < stop

\* for i in range(0, len(chunks), BATCH_SIZE): whether i is still in range.
RangeHas(i, stop, step) == i < stop

\* doc_id = blob_name.split('/')[-1].replace('.jsonl', '')
Stage5DocId(blob_name) == Remove(LastPart(blob_name), << ".", "j", "s", "o", "n", "l" >>)

\* metadata of process_document, without the time.
IndexedRecord(blob_name, year, list) ==
    [ doc_id      |-> Stage5DocId(blob_name),
      year        |-> year,
      chunks      |-> Len(list),
      source_blob |-> blob_name ]

\* A call of stage 5's process_document, or of index_to_search, that has
\* not begun.
NoIndexCall == [ pc |-> "idle", blob_name |-> << >>, year |-> << >>, chunks |-> << >>,
                 i |-> 0, total_uploaded |-> 0, attempted |-> 0, ret |-> 0,
                 failed |-> FALSE, wrote |-> { } ]

\* Stage 5's main finds the embedded blobs the earlier stages made of an
\* archive; or src/main.py hands the embedded chunks of the archive's
\* documents to index_to_search.
InitIndex ==
    /\ ChunkerInPipeline
    /\ parsed = << >>
    /\ chunk_blobs = << >>
    /\ wk = << >>
    /\ emb = << >>
    /\ search_index = << >>
    /\ indexed_blobs = << >>
    /\ \E files \in SUBSET { SourceFileList[k] : k \in DOMAIN SourceFileList } :
          /\ files # { }
          /\ Cardinality(files) <= MaxFiles
          /\ archive = files
          /\ \/ /\ mode = "index"
                /\ skip \in BOOLEAN
                /\ containers = { CONTAINER_EMBEDDED }
                /\ \E cnt \in [ files -> IndexCounts ] : embedded_blobs = EmbeddedFrom(files, cnt)
                /\ ix = NoIndexCall
                /\ batch = [ y |-> 1, i |-> 1, run |-> 1, total_docs |-> 0, total_chunks |-> 0 ]
             \/ /\ mode = "index_single"
                /\ skip = FALSE
                /\ containers = { }
                /\ embedded_blobs = << >>
                /\ LET listed == SelectSeq(SourceFileList, LAMBDA f : f \in files)
                       RECURSIVE All(_)
                       All(k) == IF k > Len(listed) THEN << >>
                                 ELSE EmbeddedRecords(ParsedFromFile(listed[k]), 1) \o All(k + 1)
                   IN  ix = [ NoIndexCall EXCEPT !.pc = "batches", !.chunks = All(1) ]
                /\ batch = << >>

\* main: chunk_count = process_document(blob_name, year), for the next blob
\* of the year's listing.
Stage5Call ==
    /\ mode = "index"
    /\ ix.pc = "idle"
    /\ batch.y <= Len(TARGET_YEARS)
    /\ LET year == TARGET_YEARS[batch.y]
           blobs == list_blobs(embedded_blobs, year \o << "/" >>)
       IN  /\ batch.i <= Len(blobs)
           /\ ix' = [ NoIndexCall EXCEPT !.pc = "download", !.blob_name = blobs[batch.i],
                                         !.year = year ]
    /\ UNCHANGED << chunker, mode, skip, parsed, containers, chunk_blobs, wk, batch,
                    embedded_blobs, emb, archive, search_index, indexed_blobs >>

\* main: the listing of a year is through, the next year begins; after the
\* last year main ends, and a later run begins with the first year.
Stage5NextYear ==
    /\ mode = "index"
    /\ ix.pc = "idle"
    /\ \/ /\ batch.y <= Len(TARGET_YEARS)
          /\ batch.i > Len(list_blobs(embedded_blobs, TARGET_YEARS[batch.y] \o << "/" >>))
          /\ batch' = [ batch EXCEPT !.y = @ + 1, !.i = 1 ]
       \/ /\ batch.y > Len(TARGET_YEARS)
          /\ batch.run < MaxRuns
          /\ batch' = [ y |-> 1, i |-> 1, run |-> batch.run + 1,
                        total_docs |-> 0, total_chunks |-> 0 ]
    /\ UNCHANGED << chunker, mode, skip, parsed, containers, chunk_blobs, wk,
                    embedded_blobs, emb, indexing >>

\* process_document: chunks = download_jsonl(CONTAINER_EMBEDDED, blob_name),
\* which can raise; return 0 when there are none.
Stage5Download ==
    /\ mode = "index"
    /\ ix.pc = "download"
    /\ \/ LET list == download_jsonl(embedded_blobs[ix.blob_name])
          IN  ix' = IF list = << >>
                      THEN [ ix EXCEPT !.pc = "done", !.ret = 0 ]
                      ELSE [ ix EXCEPT !.chunks = list,
                                       !.pc = IF RangeHas(0, Len(list), STAGE5_BATCH_SIZE)
                                                THEN "batches" ELSE "record" ]
       \/ ix' = [ ix EXCEPT !.pc = "done", !.ret = 0, !.failed = TRUE ]
    /\ UNCHANGED << chunker, mode, skip, parsed, containers, chunk_blobs, wk, batch,
                    embedded_blobs, emb, archive, search_index, indexed_blobs >>

\* The loop of process_document, one pass: upload_batch(chunks[i:i +
\* BATCH_SIZE]) counts the documents the service took, and counts none when
\* upload_documents raises.
Stage5Batch ==
    /\ mode = "index"
    /\ ix.pc = "batches"
    /\ \E outcome \in UploadOutcomes :
          LET documents == PySlice(ix.chunks, ix.i, ix.i + STAGE5_BATCH_SIZE)
              took == Succeeded(documents, outcome)
              i2 == ix.i + STAGE5_BATCH_SIZE
          IN  /\ search_index' = upload_documents(search_index, took)
              /\ ix' = [ ix EXCEPT !.i = i2,
                                   !.total_uploaded = @ + Len(took),
                                   !.attempted = @ + 1,
                                   !.pc = IF RangeHas(i2, Len(ix.chunks), STAGE5_BATCH_SIZE)
                                            THEN "batches" ELSE "record" ]
    /\ UNCHANGED << chunker, mode, skip, parsed, containers, chunk_blobs, wk, batch,
                    embedded_blobs, emb, archive, indexed_blobs >>

\* process_document: upload_json(CONTAINER_INDEXED, f"{year}/{doc_id}.json",
\* metadata) and return total_uploaded; when the upload raises, return 0.
Stage5Record ==
    /\ mode = "index"
    /\ ix.pc = "record"
    /\ LET name == ParsedBlob(ix.year, Stage5DocId(ix.blob_name))
       IN  \/ /\ indexed_blobs' = (name :> IndexedRecord(ix.blob_name, ix.year, ix.chunks))
                                     @@ indexed_blobs
              /\ containers' = containers \cup { CONTAINER_INDEXED }
              /\ ix' = [ ix EXCEPT !.pc = "done", !.ret = ix.total_uploaded,
                                   !.wrote = { name } ]
           \/ /\ ix' = [ ix EXCEPT !.pc = "done", !.ret = 0, !.failed = TRUE ]
              /\ UNCHANGED << indexed_blobs, containers >>
    /\ UNCHANGED << chunker, mode, skip, parsed, chunk_blobs, wk, batch,
                    embedded_blobs, emb, archive, search_index >>

\* main: a document counts when chunk_count > 0; then the next blob.
Stage5Take ==
    /\ mode = "index"
    /\ ix.pc = "done"
    /\ batch' = [ batch EXCEPT !.i = @ + 1,
                               !.total_docs = IF ix.ret > 0 THEN @ + 1 ELSE @,
                               !.total_chunks = IF ix.ret > 0 THEN @ + ix.ret ELSE @ ]
    /\ ix' = NoIndexCall
    /\ UNCHANGED << chunker, mode, skip, parsed, containers, chunk_blobs, wk,
                    embedded_blobs, emb, archive, search_index, indexed_blobs >>

\* index_to_search, one pass of its loop: the batch is converted and
\* uploaded, the documents the service took are counted; an exception of
\* upload_documents is raised again. After the last pass the count is
\* returned.
IndexToSearchBatch ==
    /\ mode = "index_single"
    /\ ix.pc = "batches"
    /\ IF RangeHas(ix.i, Len(ix.chunks), INDEX_BATCH_SIZE)
         THEN \E outcome \in UploadOutcomes :
                LET chunk_batch == PySlice(ix.chunks, ix.i, ix.i + INDEX_BATCH_SIZE)
                    documents == [ k \in DOMAIN chunk_batch |->
                                     chunk_to_search_document(chunk_batch[k]) ]
                    took == Succeeded(documents, outcome)
                IN  IF outcome = "raised"
                      THEN /\ ix' = [ ix EXCEPT !.pc = "raised", !.failed = TRUE ]
                           /\ UNCHANGED search_index
                      ELSE /\ search_index' = upload_documents(search_index, took)
                           /\ ix' = [ ix EXCEPT !.i = @ + INDEX_BATCH_SIZE,
                                                !.total_uploaded = @ + Len(took),
                                                !.attempted = @ + 1 ]
         ELSE /\ ix' = [ ix EXCEPT !.pc = "done", !.ret = ix.total_uploaded ]
              /\ UNCHANGED search_index
    /\ UNCHANGED << chunker, pipeline, archive, indexed_blobs >>

NextIndex ==
    \/ Stage5Call
    \/ Stage5NextYear
    \/ Stage5Download
    \/ Stage5Batch
    \/ Stage5Record
    \/ Stage5Take
    \/ IndexToSearchBatch

SpecIndex == InitIndex /\ [][NextIndex]_vars

\* ------------------------------------------------------------ vocabulary

\* chunk_document has returned its list.
Returned == pc = "returned"

\* The document went through the sections branch.
Sectioned == doc.sections # << >>

\* Token length as the tokenizer measures it: by encoding the text.
TokenLen(text) == Len(Encode(text))

\* chunk_document has raised an exception.
Raised == pc = "raised"

\* overlap_tokens < max_chunk_tokens and min_chunk_tokens <= max_chunk_tokens
ValidConfig(c) == c.overlap < c.max /\ c.min <= c.max

\* A configuration the specification allows: positive sizes that are valid.
\* The claims below that fail are stated for these configurations, so that
\* no failure rests on a configuration that should have been refused.
Allowed(c) == c.min > 0 /\ c.overlap > 0 /\ ValidConfig(c)

\* A section with at least one paragraph.
HasParagraphs(section) == section.paragraphs # << >>

\* ------------------------------------------------------------------ claims

\* C1: every record chunk_document returns has id = document_id + "_chunk_" +
\* its own final, document-wide chunk_index, the sections branch included.
C1_IdFromFinalIndex ==
    (Returned /\ Allowed(cfg)) =>
        \A i \in 1..Len(chunks) :
            chunks[i].id = ChunkId(chunks[i].document_id, chunks[i].chunk_index)

\* C2: no two records returned for one document share an id.
C2_IdsUnique ==
    (Returned /\ Allowed(cfg)) =>
        \A i, j \in 1..Len(chunks) : i # j => chunks[i].id # chunks[j].id

\* C3: the chunk_index values of the returned list are 0..N-1 in list order,
\* numbered across the whole document.
C3_IndexIsPosition ==
    Returned => \A i \in 1..Len(chunks) : chunks[i].chunk_index = i - 1

\* C3 witness: a returned two-section document with a record from each
\* section, so that per-section and document-wide numbering differ.
C3_Witness ==
    /\ Returned
    /\ Len(doc.sections) = 2
    /\ taken[1] >= 1 /\ taken[2] >= 1
    /\ Len(chunks) = 2

\* C4: every piece the splitter emits, and every record content of
\* chunk_section and chunk_document, re-encodes to at most max_chunk_tokens
\* tokens.
C4_WithinBudget ==
    /\ \A i \in 1..Len(ct.chunks) : TokenLen(ct.chunks[i]) <= cfg.max
    /\ \A i \in 1..Len(chunks) : TokenLen(chunks[i].content) <= cfg.max

\* C4 witness: a returned document with a piece that boundary snapping cut
\* short and a piece that fills the whole budget.
C4_Witness ==
    /\ Returned
    /\ \E k \in 1..Len(ct.passes) : ct.passes[k].cut /\ ct.passes[k].end < ct.passes[k].end0
    /\ \E i \in 1..Len(chunks) : TokenLen(chunks[i].content) = cfg.max
    /\ Len(chunks) >= 3

\* C5: an oversized section gives one record per piece of the splitter, in
\* order, each with the section's number and heading, and chunk_section does
\* not fail.
C5_SplitSectionReturns ==
    (Sectioned /\ Allowed(cfg)) =>
        ~Raised

\* C6: with 0 < overlap_tokens < max_tokens the loop of chunk_text ends,
\* whatever boundary snapping finds.
C6_LoopEnds ==
    (0 < cfg.overlap /\ cfg.overlap < cfg.max) => pc # "hang"

\* C7: every record chunk_document returns has non-empty content.
C7_ContentNonEmpty ==
    (Returned /\ Allowed(cfg)) => \A i \in 1..Len(chunks) : chunks[i].content # << >>

\* C8: a section without paragraphs contributes no record and uses up no
\* chunk_index, with or without a heading.
C8_EmptySectionSkipped ==
    Allowed(cfg) => \A s \in 1..Len(taken) : ~HasParagraphs(doc.sections[s]) => taken[s] = 0

\* C9: when every section's composed text fits the budget, the returned
\* records are the sections that have paragraphs, one record each, in the
\* order of the sections list.
C9_OnePerNonEmptySection ==
    (Returned /\ Sectioned /\ Allowed(cfg)
       /\ \A s \in 1..Len(doc.sections) : TokenLen(SectionText(doc.sections[s])) <= cfg.max) =>
        LET kept == SelectSeq(doc.sections, HasParagraphs)
        IN  /\ Len(chunks) = Len(kept)
            /\ \A i \in 1..Len(kept) :
                  /\ chunks[i].content = SectionText(kept[i])
                  /\ chunks[i].section_number = kept[i].number
                  /\ chunks[i].section_heading = kept[i].heading

\* C10: a configuration with overlap_tokens >= max_chunk_tokens or with
\* min_chunk_tokens > max_chunk_tokens is rejected when it is loaded: the
\* chunker never runs with it.
C10_BadConfigRejected ==
    pc \in { "section", "split", "returned", "raised", "hang" } => ValidConfig(cfg)

\* s occurs in t as a run of consecutive characters.
IsInfix(s, t) ==
    \E k \in 0..(Len(t) - Len(s)) : SubSeq(t, k + 1, k + Len(s)) = s

\* C14: with a non-empty sections list every record is built from a section
\* (its number, its heading, a stretch of its composed text) and full_text
\* is never handed to the splitter; with an empty sections list the text
\* that is split is full_text and the records
\* are stretches of full_text and carry no section number and no heading.
C14_SectionsElseFullText ==
    /\ Sectioned =>
          /\ ct = NoFrame
          /\ \A i \in 1..Len(chunks) : \E s \in 1..Len(doc.sections) :
                /\ chunks[i].section_number = doc.sections[s].number
                /\ chunks[i].section_heading = doc.sections[s].heading
                /\ IsInfix(chunks[i].content, SectionText(doc.sections[s]))
    /\ ~Sectioned =>
          /\ ct = NoFrame \/ ct.text = doc.full_text
          /\ \A i \in 1..Len(chunks) :
                /\ chunks[i].section_number = None
                /\ chunks[i].section_heading = None
                /\ IsInfix(chunks[i].content, doc.full_text)

\* C14 witness: a returned document with sections, a full_text of its own
\* and at least two records, none of which holds the full_text.
C14_Witness ==
    /\ Returned
    /\ Sectioned
    /\ doc.full_text # << >>
    /\ Len(chunks) >= 2
    /\ \A i \in 1..Len(chunks) : ~IsInfix(doc.full_text, chunks[i].content)

\* C20: in every pass of the loop of chunk_text that is not the last one the
\* cursor start moves up by at least max_tokens - overlap_tokens, the passes
\* in which boundary snapping cut the piece and recomputed end included.
C20_CursorAdvance ==
    Allowed(cfg) =>
        \A k \in 1..Len(ct.passes) :
            ct.passes[k].next < Len(ct.tokens) =>
                ct.passes[k].next - ct.passes[k].start >= cfg.max - cfg.overlap

\* How the call of chunk.py's chunk_document has ended, in the terms of the
\* staged copy.
Outcome ==
    CASE pc = "returned" -> Ok(chunks)
      [] pc = "raised"   -> Raise
      [] pc = "hang"     -> Hang

\* C17: chunk.py's chunk_document and stage3_chunk.py's chunk_document end
\* the same way on every document under the same sizes, and when they
\* return they return the same record sequence.
C17_SameAsStagedCopy ==
    pc \in { "returned", "raised", "hang" } => Outcome = chunk_document(doc, cfg)

\* C17 witness: both return three or more records of a split full_text, one
\* of them cut at a boundary.
C17_Witness ==
    /\ Returned
    /\ Len(chunks) >= 3
    /\ \E k \in 1..Len(ct.passes) : ct.passes[k].cut
    /\ chunk_document(doc, cfg).status = "ok"

\* C13: a later call of chunk_document on the same document, with the same
\* tokenizer and sizes, returns the list every earlier call returned: the
\* same length and the same record at every position.
C13_SameListAgain ==
    Returned => \A k \in 1..Len(earlier) : chunks = earlier[k]

\* C13 witness: a second call has returned, with two records or more.
C13_Witness ==
    /\ Returned
    /\ earlier # << >>
    /\ Len(chunks) >= 2

\* C16: a document without sections whose full_text has 2,500 tokens gives
\* exactly 3 records under the sizes 1000 / 800 / 100, wherever its sentence
\* ends lie.
C16_ThreeRecords ==
    (Returned /\ TokenLen(doc.full_text) = 2500 /\ cfg = DefaultSizes) => Len(chunks) = 3

\* The chunk blob stage 3 writes for the n-th parsed document.
OutputOf(n) == OutputBlob(ParsedBlob(Year, DocId(n)), Year)

\* C11: with SKIP_EXISTING on, a chunk blob that exists is left as it is by
\* every step of every later run of stage 3: it stays, with the same
\* records.
C11_ExistingUntouched ==
    [][ skip => \A name \in DOMAIN chunk_blobs :
                  /\ name \in DOMAIN chunk_blobs'
                  /\ chunk_blobs'[name] = chunk_blobs[name] ]_vars

\* The lists of the documents of ds that chunk_document returns a list
\* for, one after the other.
RECURSIVE ListsOfReturning(_)
ListsOfReturning(ds) ==
    IF ds = << >> THEN << >>
    ELSE LET got == chunk_document(Head(ds), cfg)
         IN  (IF got.status = "ok" THEN got.chunks ELSE << >>) \o ListsOfReturning(Tail(ds))

\* C12: when chunk_documents has gone through a batch, its list is the
\* lists of the documents that did not raise, complete and in batch order,
\* with no record of a document that raised; and when stage 3's main has
\* gone through the listing, every document that chunks to a non-empty list
\* has its blob, whatever raised before it, and a document that raised has
\* none written.
C12_SiblingsKept ==
    /\ (mode = "single" /\ batch.i > Len(parsed)) =>
          batch.all_chunks = ListsOfReturning(parsed)
    /\ (mode = "staged" /\ batch.i > Len(parsed)) =>
          \A n \in 1..Len(parsed) :
              LET got == chunk_document(parsed[n], cfg)
              IN  /\ (got.status = "ok" /\ got.chunks # << >>) =>
                        /\ OutputOf(n) \in DOMAIN chunk_blobs
                        /\ download_jsonl(chunk_blobs[OutputOf(n)]) \in { got.chunks, OldRecords(n) }
                  /\ got.status = "raised" =>
                        (OutputOf(n) \in DOMAIN chunk_blobs =>
                            download_jsonl(chunk_blobs[OutputOf(n)]) = OldRecords(n))

\* C12 witness: chunk_documents has returned the records of the second
\* document of a batch whose first document raised.
C12_Witness ==
    /\ mode = "single"
    /\ Len(parsed) = 2
    /\ batch.i > Len(parsed)
    /\ chunk_document(parsed[1], cfg).status = "raised"
    /\ Len(batch.all_chunks) >= 2

\* C15: process_document returns 0 for a document with no sections and no
\* full_text without failing, and a call that failed returns something
\* else, so that the caller can tell the two apart.
C15_EmptyIsNotFailure ==
    \A w \in DOMAIN wk :
        wk[w].pc = "done" =>
            /\ (wk[w].doc # NoDocument /\ wk[w].doc.sections = << >>
                   /\ wk[w].doc.full_text = << >>) =>
                  (wk[w].ret = 0 /\ ~wk[w].failed)
            /\ wk[w].failed => wk[w].ret # 0

\* Every worker has returned.
AllDone == \A w \in DOMAIN wk : wk[w].pc = "done"

\* The chunks container after process_document ran from start to end on
\* document w with nothing else running, from the container store.
ProcessAlone(store, w) ==
    LET got == chunk_document(parsed[w], cfg)
    IN  IF skip /\ blob_exists(store, OutputOf(w), wk[w].fault) THEN store
        ELSE IF got.status = "ok" /\ got.chunks # << >>
          THEN upload_jsonl(store, OutputOf(w), got.chunks)
          ELSE store

\* The chunks container after the documents 1..n were processed one after
\* another, from the container the workers started with.
RECURSIVE OneAfterAnother(_)
OneAfterAnother(n) ==
    IF n = 0 THEN StoreWith({ w \in DOMAIN wk : wk[w].old })
    ELSE ProcessAlone(OneAfterAnother(n - 1), n)

\* C18: when the concurrent workers have all returned, the chunks container
\* is the one that processing the documents one after another leaves, and
\* no worker ever wrote a blob other than the output blob of its document.
C18_AsOneAfterAnother ==
    /\ AllDone => chunk_blobs = OneAfterAnother(Len(parsed))
    /\ \A w \in DOMAIN wk : wk[w].wrote \subseteq { OutputOf(w) }

\* The record without its content_vector.
WithoutVector(rec) == [ f \in DOMAIN rec \ { "content_vector" } |-> rec[f] ]

\* The list is the records of src, one for one and in order, each with a
\* content_vector added.
SameWithVectors(recs, src) ==
    /\ Len(recs) = Len(src)
    /\ \A i \in 1..Len(recs) :
          /\ "content_vector" \in DOMAIN recs[i]
          /\ WithoutVector(recs[i]) = src[i]

\* C19: every record of every embedded blob carries a content_vector; a
\* blob stage 4 wrote holds the records of the document's chunk blob, one
\* for one and in order, each with its vector, and is written only when the
\* batch loop has gone through all of them; a call in which a batch failed
\* has written nothing, so that the blob of an earlier run, or none, is
\* there.  generate_embeddings of src/embed.py likewise returns all its
\* chunks with vectors, or raises.
C19_EmbeddedComplete ==
    /\ \A name \in DOMAIN embedded_blobs :
          LET recs == download_jsonl(embedded_blobs[name])
          IN  /\ \A i \in 1..Len(recs) : "content_vector" \in DOMAIN recs[i]
              /\ name \in emb.wrote =>
                    /\ name \in DOMAIN chunk_blobs
                    /\ SameWithVectors(recs, download_jsonl(chunk_blobs[name]))
              /\ name \notin emb.wrote =>
                    \E n \in emb.olds : /\ name = ChunkBlobName(n)
                                        /\ recs = OldEmbedded(n)
    /\ emb.pc \in { "ensure", "create", "upload" } =>
          SameWithVectors(emb.embedded_chunks, emb.chunks)
    /\ (mode = "embed" /\ emb.failed) => emb.output \notin emb.wrote
    /\ (mode = "embed_single" /\ emb.pc = "returned") =>
          SameWithVectors(emb.embedded_chunks, emb.chunks)

\* C19 witness: stage 4 has written the embedded blob of a document whose
\* chunks took more than one batch, after a document of the same run failed
\* in a batch and left nothing.
C19_Witness ==
    /\ mode = "embed"
    /\ emb.pc = "done"
    /\ emb.output \in emb.wrote
    /\ Len(emb.chunks) > BATCH_SIZE
    /\ Len(download_jsonl(embedded_blobs[emb.output])) = Len(emb.chunks)
    /\ DOMAIN embedded_blobs = { emb.output }
    /\ batch.i = 2

\* C21: in chunk_text's loop the first pass starts at token 0, every later
\* pass starts at the end of the pass before it, as recomputed after a cut,
\* minus the overlap; and the loop ends with the first pass whose end is the
\* number of tokens: no pass follows such a pass, and the last pass of a
\* loop that has ended has that end.
C21_StartFromEndMinusOverlap ==
    ct.passes # << >> =>
        /\ ct.passes[1].start = 0
        /\ \A k \in 1..(Len(ct.passes) - 1) :
              ct.passes[k + 1].start = ct.passes[k].end - cfg.overlap
        /\ \A k \in 1..Len(ct.passes) :
              ct.passes[k].end >= Len(ct.tokens) => (k = Len(ct.passes) /\ Returned)
        /\ Returned => ct.passes[Len(ct.passes)].end = Len(ct.tokens)

\* C21 witness: the loop has ended after two passes or more with a
\* positive overlap, the first of them cut at a boundary short of its slice.
C21_Witness ==
    /\ Returned
    /\ Len(ct.passes) >= 2
    /\ ct.passes[1].cut
    /\ ct.passes[1].end < ct.passes[1].end0
    /\ cfg.overlap > 0

\* C22: after a pass of chunk_text that cut its chunk at a boundary and
\* recomputed end, the tokens [start, end) of the text decode to exactly the
\* chunk that was emitted.
C22_CursorMatchesText ==
    Allowed(cfg) =>
        \A k \in 1..Len(ct.passes) :
            ct.passes[k].cut =>
                Decode(PySlice(ct.tokens, ct.passes[k].start, ct.passes[k].end)) = ct.chunks[k]

\* The text the k-th pass of chunk_text decoded from its token slice, before
\* any cut.
DecodedSlice(k) == Decode(PySlice(ct.tokens, ct.passes[k].start, ct.passes[k].end0))

\* The chunk is the first characters of the text.
IsPrefix(chunk, text) == Len(chunk) <= Len(text) /\ SubSeq(text, 1, Len(chunk)) = chunk

\* A chunk differs from its decoded slice only in a pass that is not the
\* last and whose slice has min_tokens tokens or more, and then it is a
\* prefix of the slice; the last chunk is the whole slice.
OnlySnappedShorter(k) ==
    /\ IsPrefix(ct.chunks[k], DecodedSlice(k))
    /\ ct.chunks[k] # DecodedSlice(k) =>
          /\ ct.passes[k].end0 < Len(ct.tokens)
          /\ Len(PySlice(ct.tokens, ct.passes[k].start, ct.passes[k].end0)) >= cfg.min
    /\ (Returned /\ k = Len(ct.passes)) => ct.chunks[k] = DecodedSlice(k)

\* C23: every chunk chunk_text emits is its whole decoded slice, or, in a
\* pass that is not the last and has min_tokens tokens or more, a prefix of
\* it that keeps at least 80% of its characters.
C23_KeepsEightyPercent ==
    Allowed(cfg) =>
        \A k \in 1..Len(ct.passes) :
            /\ OnlySnappedShorter(k)
            /\ 5 * Len(ct.chunks[k]) >= 4 * Len(DecodedSlice(k))

\* C23 as amended: the prefix keeps at least floor(0.8 * len) characters of
\* the decoded slice, the offset the search starts at.
C23_KeepsFromSearchStart ==
    \A k \in 1..Len(ct.passes) :
        /\ OnlySnappedShorter(k)
        /\ Len(ct.chunks[k]) >= (4 * Len(DecodedSlice(k))) \div 5

\* C23 witness: a pass cut its chunk at the very offset the search started
\* at, short of 80% of the slice.
C23_Witness ==
    /\ Allowed(cfg)
    /\ \E k \in 1..Len(ct.passes) :
          /\ ct.passes[k].cut
          /\ Len(ct.chunks[k]) = (4 * Len(DecodedSlice(k))) \div 5
          /\ 5 * Len(ct.chunks[k]) < 4 * Len(DecodedSlice(k))

\* The character at 0-based offset i of the text ends a sentence: it is one
\* of . ! ? and white space or the end of the text follows it.
EndsSentence(text, i) ==
    /\ text[i + 1] \in { ".", "!", "?" }
    /\ (i + 1 = Len(text) \/ text[i + 2] \in { " ", "\n" })

\* The 0-based offsets at or after start_pos where a blank line begins.
BreaksFrom(text, start_pos) ==
    { i \in start_pos..(Len(text) - 2) : text[i + 1] = "\n" /\ text[i + 2] = "\n" }

\* find_sentence_boundary has returned.
BoundaryReturned == mode = "boundary" /\ batch.pc \in { "returned", "taken" }

\* C24: when a sentence ends at some offset at or after start_pos,
\* find_sentence_boundary returns the offset just past the first such end,
\* also when a paragraph break comes before it.
C24_FirstSentenceEnd ==
    BoundaryReturned =>
        \A i \in batch.start_pos..(Len(batch.text) - 1) :
            (/\ EndsSentence(batch.text, i)
             /\ \A j \in batch.start_pos..(i - 1) : ~EndsSentence(batch.text, j))
            => batch.sentence_end = i + 1

\* C24 witness: the sentence end that was returned lies beyond a paragraph
\* break at or after start_pos.
C24_Witness ==
    /\ BoundaryReturned
    /\ BreaksFrom(batch.text, batch.start_pos) # { }
    /\ \E i \in batch.start_pos..(Len(batch.text) - 1) :
          /\ EndsSentence(batch.text, i)
          /\ batch.sentence_end = i + 1
          /\ \E b \in BreaksFrom(batch.text, batch.start_pos) : b < i

\* C25: when no sentence ends at or after start_pos, find_sentence_boundary
\* returns the offset of the first paragraph break at or after start_pos,
\* offset 0 included, and -1 only when there is no such break either; the
\* caller then keeps its text as it is.
C25_ParagraphFallback ==
    (BoundaryReturned
       /\ \A i \in batch.start_pos..(Len(batch.text) - 1) : ~EndsSentence(batch.text, i)) =>
        /\ BreaksFrom(batch.text, batch.start_pos) # { } =>
              batch.sentence_end = SetMin(BreaksFrom(batch.text, batch.start_pos))
        /\ BreaksFrom(batch.text, batch.start_pos) = { } => batch.sentence_end = 0 - 1
        /\ (batch.pc = "taken" /\ batch.sentence_end = 0 - 1) => batch.chunk_text = batch.text

\* The number of characters of the first i tokens.
RECURSIVE CharsBefore(_, _)
CharsBefore(toks, i) == IF i <= 0 THEN 0 ELSE Len(toks[i]) + CharsBefore(toks, i - 1)

\* The t-th token of the text lies within the k-th chunk emitted: the chunk
\* is the text from the first character of token start on, for as many
\* characters as the chunk has.
TokenInChunk(t, k) ==
    LET from == CharsBefore(ct.tokens, ct.passes[k].start)
    IN  /\ from <= CharsBefore(ct.tokens, t - 1)
        /\ CharsBefore(ct.tokens, t) <= from + Len(ct.chunks[k])

\* C26: with 0 <= overlap_tokens < max_tokens, when chunk_text has gone
\* through an oversized text, its passes' ranges [start, end) cover every
\* token index, and every token of the text lies within some chunk that was
\* emitted.
C26_EveryTokenInAChunk ==
    (Returned /\ ct.passes # << >> /\ cfg.overlap >= 0 /\ cfg.overlap < cfg.max) =>
        \A t \in 1..Len(ct.tokens) :
            /\ \E k \in 1..Len(ct.passes) : ct.passes[k].start < t /\ t <= ct.passes[k].end
            /\ \E k \in 1..Len(ct.passes) : TokenInChunk(t, k)

\* C28: in every pass of chunk_text whose end, before any cut, is below the
\* number of tokens, the token slice has exactly max_tokens tokens, and the
\* boundary search is made exactly when min_tokens <= max_tokens.
C28_MinIsASwitch ==
    \A k \in 1..Len(ct.passes) :
        ct.passes[k].end0 < Len(ct.tokens) =>
            /\ Len(PySlice(ct.tokens, ct.passes[k].start, ct.passes[k].end0)) = cfg.max
            /\ ct.passes[k].search <=> cfg.min <= cfg.max

\* chunk_document gives no record for the n-th parsed document: it returns
\* an empty list or raises.
NothingToStore(n) ==
    LET got == chunk_document(parsed[n], cfg)
    IN  got.status = "raised" \/ (got.status = "ok" /\ got.chunks = << >>)

\* C29: no chunk blob is empty; a document for which chunk_document gives
\* no record has no blob written for it, its call returns 0, and as long as
\* no blob of an earlier time is there under its name the call of every run,
\* with skip-existing or without, downloads and chunks it again.
C29_NothingStoredComesAgain ==
    mode = "staged" =>
        /\ \A name \in DOMAIN chunk_blobs : download_jsonl(chunk_blobs[name]) # << >>
        /\ \A n \in 1..Len(parsed) :
              NothingToStore(n) =>
                  /\ OutputOf(n) \notin wk[1].wrote
                  /\ (OutputOf(n) \in DOMAIN chunk_blobs =>
                         download_jsonl(chunk_blobs[OutputOf(n)]) = OldRecords(n))
                  /\ (wk[1].pc = "done" /\ wk[1].output = OutputOf(n)) =>
                         /\ wk[1].ret = 0
                         /\ (OutputOf(n) \notin DOMAIN chunk_blobs => wk[1].doc = parsed[n])

\* C29 witness: in a second run with skip-existing on, the call for a
\* document whose chunking failed in the first run has chunked it again and
\* returned 0, and no blob is there for it.
C29_Witness ==
    /\ mode = "staged"
    /\ skip
    /\ batch.run = 2
    /\ wk[1].pc = "done"
    /\ wk[1].failed
    /\ wk[1].doc # NoDocument
    /\ wk[1].ret = 0
    /\ wk[1].output \notin DOMAIN chunk_blobs

\* The records of the embedded blobs, every blob's in turn.
RECURSIVE RecordsOf(_)
RecordsOf(names) ==
    IF names = << >> THEN << >>
    ELSE download_jsonl(embedded_blobs[Head(names)]) \o RecordsOf(Tail(names))

\* The chunks handed to the index: the records of every embedded blob, or
\* the search documents of the chunks given to index_to_search.
ChunksToIndex ==
    IF mode = "index" THEN RecordsOf(list_blobs(embedded_blobs, << >>))
    ELSE [ k \in DOMAIN ix.chunks |-> chunk_to_search_document(ix.chunks[k]) ]

\* A run is over in which the service took every chunk: stage 5's main has
\* counted as many chunks as the embedded blobs hold, or index_to_search has
\* returned the length of its list.
EveryChunkTaken ==
    \/ /\ mode = "index"
       /\ ix.pc = "idle"
       /\ batch.y > Len(TARGET_YEARS)
       /\ batch.total_chunks = Len(ChunksToIndex)
    \/ /\ mode = "index_single"
       /\ ix.pc = "done"
       /\ ix.ret = Len(ix.chunks)

\* C27: the chunk ids of a run are unique across the documents of all
\* target years, also for source files of different years with one base
\* name: no two chunks have one key in the search index, so after a run in
\* which the service took every chunk, every chunk is in the index under
\* its id, as it was uploaded.
C27_IdsUniqueAcrossYears ==
    EveryChunkTaken =>
        \A k \in DOMAIN ChunksToIndex :
            /\ ChunksToIndex[k].id \in DOMAIN search_index
            /\ search_index[ChunksToIndex[k].id] = ChunksToIndex[k]

\* ceil(len / BATCH_SIZE): the passes of the loop over a list of len chunks.
Stage5Passes(len) == (len + STAGE5_BATCH_SIZE - 1) \div STAGE5_BATCH_SIZE

\* C30: stage 5 writes the indexed record of a document only after every
\* batch of it was handed to upload_batch, and it writes the record whenever
\* the embedded blob was read with one chunk or more, however many uploads
\* failed; in every run, with skip-existing set or not and with a record
\* there or not, every batch of every document read is uploaded again.
C30_RecordAfterEveryUpload ==
    mode = "index" =>
        LET name == ParsedBlob(ix.year, Stage5DocId(ix.blob_name))
        IN  /\ ix.wrote # { } =>
                  /\ Len(ix.chunks) >= 1
                  /\ ix.attempted = Stage5Passes(Len(ix.chunks))
            /\ (ix.pc = "done" /\ ~ix.failed /\ ix.chunks # << >>) =>
                  /\ ix.wrote = { name }
                  /\ name \in DOMAIN indexed_blobs
                  /\ indexed_blobs[name] = IndexedRecord(ix.blob_name, ix.year, ix.chunks)
                  /\ ix.ret = ix.total_uploaded
            /\ (ix.pc \in { "record", "done" } /\ ix.chunks # << >>) =>
                  ix.attempted = Stage5Passes(Len(ix.chunks))

\* In a second run with skip-existing set, a document of two batches whose
\* uploads all failed has its record written again.
C30_Witness ==
    /\ mode = "index"
    /\ skip
    /\ batch.run = 2
    /\ ix.pc = "done"
    /\ ix.wrote # { }
    /\ ix.attempted = 2
    /\ ix.total_uploaded = 0

====
